---- MODULE Spec2Model ----
(***************************************************************************)
(* License lifecycle engine of the Vibe coordinator: the payment gateway   *)
(* (src/src/lib/payment-gateway.ts), the customer and license store        *)
(* (src/src/lib/db.ts), the revocation list (src/src/lib/revocation.ts)    *)
(* and the operator issue endpoint (src/src/lib/config.ts, second half).   *)
(*                                                                         *)
(* Time is counted in ticks; TicksPerSec ticks make one clock second.      *)
(* JavaScript timestamps (new Date()) have tick resolution, the SQLite     *)
(* default datetime('now') of the created_at columns has second            *)
(* resolution.  A handler runs without interruption from its call to its   *)
(* first await and from the resumption to its return (single event loop);  *)
(* the only await in the gateway is the one on signLicense.                *)
(***************************************************************************)
EXTENDS Integers, Sequences, FiniteSets, TLC

\* ------------------------------------------------------------------ bounds
MaxTime == 2
MaxCalls == 3
MaxSlots == 2
MaxTtlDays == 2
MaxVerifyCalls == 4
MaxCancelCalls == 4
MaxMinutes == 7
MaxUuids == 2

\* ------------------------------------------------------- program constants
TicksPerSec == 2
YearTicks == 365 * 24 * 60 * 60 * TicksPerSec
OfflineTtlDays == 30

\* ------------------------------------------------------------ input values
Null == 0
Emails == {"a@x.com", "b@x.com"}
Plans == {"FREE", "PRO"}
PaymentProvider == {"stripe", "paddle"}
PaymentEventType ==
  {"checkout_completed", "subscription_updated", "subscription_cancelled",
   "payment_failed"}
ExternalCustomerIds == {"cus_1"}
ExternalTransactionIds == {"tx_1"}
ExpiresAtInputs == {Null, 9}

PaymentEvent ==
  [provider : PaymentProvider, eventType : PaymentEventType, email : Emails,
   plan : Plans, externalCustomerId : ExternalCustomerIds,
   externalTransactionId : ExternalTransactionIds, expiresAt : ExpiresAtInputs]

\* The events fed to the gateway.  Only checkout_completed and
\* subscription_updated read plan; the other two handlers get one
\* representative value of it.  The sequential and the concurrent
\* specification feed events without expiresAt (365 days of validity).
ReadsPlan(ev) == ev.eventType \in {"checkout_completed", "subscription_updated"}

Events ==
  {ev \in PaymentEvent : ev.expiresAt = Null /\ (~ReadsPlan(ev) => ev.plan = "FREE")}

\* Requests to POST /v1/license/issue: an X-API-Key header (its prefix and
\* its length, or NoKey when the header is missing) and the body, which is
\* JSON or not; a field that is missing from the body is Missing.
NoKey == [prefix |-> "", length |-> 0]
ApiKeys ==
  {[prefix |-> "vibe_sk_", length |-> 21], [prefix |-> "vibe_sk_", length |-> 20],
   [prefix |-> "vibe_pk_", length |-> 21]}
OperatorCustomerIds == {101}
DurationDays == {0, 1}
Missing == ""

IssueRequest ==
  [apiKey : ApiKeys \cup {NoKey}, json : BOOLEAN, customer_id : OperatorCustomerIds \cup {0},
   email : Emails \cup {Missing}, plan : Plans \cup {Missing}, duration_days : DurationDays]

CompleteBody(r) == r.json /\ r.email # Missing /\ r.plan # Missing /\ r.duration_days # 0

\* The rejected requests are represented by a few requests each: a key that
\* is not accepted with a complete body, with a body without email and with
\* a body that is not JSON; an accepted key with a body that lacks one field
\* and with a body that is not JSON.
RejectedRequests ==
  {r \in IssueRequest :
     /\ r.customer_id = 0
     /\ r.email \in {"a@x.com", Missing}
     /\ \/ r.apiKey.length <= 20 /\ r.json /\ r.plan = "PRO" /\ r.duration_days = 1
        \/ /\ r.apiKey.prefix = "vibe_pk_" /\ r.plan = "PRO" /\ r.duration_days = 1
           /\ r.email = "a@x.com"
        \/ /\ r.apiKey = [prefix |-> "vibe_sk_", length |-> 21]
           /\ r.json
           /\ Cardinality({x \in {"email", "plan", "duration_days"} :
                             (x = "email" /\ r.email = Missing)
                             \/ (x = "plan" /\ r.plan = Missing)
                             \/ (x = "duration_days" /\ r.duration_days = 0)}) = 1
        \/ /\ r.apiKey = [prefix |-> "vibe_sk_", length |-> 21]
           /\ ~r.json /\ r.email = "a@x.com" /\ r.plan = "PRO" /\ r.duration_days = 1}

IssueRequests ==
  {r \in IssueRequest :
     /\ r.apiKey = [prefix |-> "vibe_sk_", length |-> 21]
     /\ CompleteBody(r)
     /\ r.customer_id # 0 => r.plan = "PRO"} \cup RejectedRequests

\* Event types that are not members of PaymentEventType (the webhook routes
\* pass along what the provider sends).
UnknownEventTypes == {"refund_issued", "checkout_expired"}

UnknownEvents ==
  [provider : {"stripe"}, eventType : UnknownEventTypes, email : {"a@x.com"},
   plan : {"FREE"}, externalCustomerId : ExternalCustomerIds,
   externalTransactionId : ExternalTransactionIds, expiresAt : {Null}]

\* The error-handling specification: the events of one customer, known and
\* unknown types.
FaultEvents ==
  {ev \in Events : ev.email = "a@x.com" /\ ev.provider = "stripe"} \cup UnknownEvents

\* The registry specification: the subjects (customer ids) and the reasons
\* that the callers of the registry pass.
Subjects == {1, 2}
Reasons == {<<"Subscription cancelled via", p>> : p \in PaymentProvider}

\* The verification specification: the gateway events of one customer that
\* write the store and the registry.
VerifyEvents ==
  {ev \in Events : ev.email = "a@x.com" /\ ev.provider = "stripe"}

\* The cancellation specification: checkouts and cancellations of every
\* customer and provider.
CancelEvents ==
  {ev \in Events : \/ ev.eventType = "checkout_completed" /\ ev.plan = "PRO"
                   \/ ev.eventType = "subscription_cancelled"}

\* The checkout specification: checkout_completed events of every provider,
\* with and without expiresAt.
CheckoutEvents == {ev \in PaymentEvent : ev.eventType = "checkout_completed"}

\* The end-to-end sequence of one subscription: the event type and the plan
\* of each call in turn.
Scenario ==
  <<[eventType |-> "checkout_completed", plan |-> "PRO"],
    [eventType |-> "subscription_updated", plan |-> "PRO"],
    [eventType |-> "subscription_updated", plan |-> "FREE"],
    [eventType |-> "subscription_cancelled", plan |-> "FREE"]>>

ConcEmails == {"a@x.com"}
ConcEvents ==
  {ev \in Events : /\ ev.email \in ConcEmails
                   /\ ev.provider = "stripe"
                   /\ ev.eventType # "payment_failed"}

\* The operator specification: issue requests next to the gateway events of
\* one customer that write license rows.
OperatorEvents ==
  {ev \in Events : /\ ev.email = "a@x.com"
                   /\ ev.provider = "stripe"
                   /\ ev.eventType # "payment_failed"}

VARIABLES
  customers,    \* rows of table customers, in rowid order
  licenses,     \* rows of table licenses, in rowid order
  revokedFile,  \* content of revoked_keys.json
  now,          \* wall clock, in ticks
  nextId,       \* number of uuid() values drawn so far
  pending,      \* per call slot: the frame suspended at an await, or Idle
  returned,     \* per call slot: the last call that returned in it
  completed,     \* number of calls that have returned
  peers,        \* the peer registry of the discovery endpoints (Map id -> Peer)
  uuids,        \* number of ids that uuid() has handed out
  replied       \* response of the last discovery request

peerVars == <<peers, uuids, replied>>
vars == <<customers, licenses, revokedFile, now, nextId, pending, returned, completed,
          peers, uuids, replied>>

NoReply == [op |-> "none"]
Slots == 1..MaxSlots
Idle == [handler |-> "idle"]
NoCall == [kind |-> "none"]

\* ------------------------------------------------------------- db.ts
Second(t) == t \div TicksPerSec

RowsOf(table) == {table[i] : i \in 1..Len(table)}

\* faulty variant: the lookup compares the wrong column
findCustomerByEmailWrongColumn(email) ==
  {c \in RowsOf(customers) : c.stripe_customer_id = email}

findCustomerByEmail(email) == {c \in RowsOf(customers) : c.email = email}

createCustomer(table, id, email, stripeCustomerId, at) ==
  Append(table, [id |-> id, email |-> email,
                 stripe_customer_id |-> stripeCustomerId,
                 created_at |-> Second(at)])

createLicense(table, id, customerId, plan, issuedAt, expiresAt, at) ==
  Append(table, [id |-> id, customer_id |-> customerId, plan |-> plan,
                 issued_at |-> issuedAt, expires_at |-> expiresAt,
                 revoked_at |-> Null, created_at |-> Second(at)])

ActiveRows(table, customerId) ==
  {l \in RowsOf(table) : l.customer_id = customerId /\ l.revoked_at = Null}

findLicenseByCustomerIn(table, customerId) ==
  {l \in ActiveRows(table, customerId) :
     \A m \in ActiveRows(table, customerId) : m.created_at <= l.created_at}

findLicenseByCustomer(customerId) == findLicenseByCustomerIn(licenses, customerId)

\* ------------------------------------------------------------- revocation.ts
NoFile == [kind |-> "absent", entries |-> <<>>, last_updated |-> Null]

\* faulty variant: the entries found in an unparsable text are used
loadRevocationStoreSalvaging(file, at) ==
  IF file.kind \in {"json", "corrupt"}
    THEN [entries |-> file.entries, last_updated |-> file.last_updated]
    ELSE [entries |-> <<>>, last_updated |-> at]

loadRevocationStore(file, at) ==
  IF file.kind = "json"
    THEN [entries |-> file.entries, last_updated |-> file.last_updated]
    ELSE [entries |-> <<>>, last_updated |-> at]

saveRevocationStore(store, at) ==
  [kind |-> "json", entries |-> store.entries, last_updated |-> at]

isRevokedIn(file, licenseId) ==
  LET store == loadRevocationStore(file, Null)
  IN  \E i \in 1..Len(store.entries) : store.entries[i].license_id = licenseId

isRevoked(licenseId) == isRevokedIn(revokedFile, licenseId)

\* faulty variant: no duplicate check
addRevocationNoDuplicateCheck(file, licenseId, reason, at) ==
  LET store == loadRevocationStore(file, at)
  IN  saveRevocationStore(
        [store EXCEPT !.entries =
           Append(@, [license_id |-> licenseId, revoked_at |-> at,
                      reason |-> reason])], at)

\* faulty variant: an entry that exists is replaced by the new one
addRevocationOverwriting(file, licenseId, reason, at) ==
  LET store == loadRevocationStore(file, at)
      entry == [license_id |-> licenseId, revoked_at |-> at, reason |-> reason]
  IN  IF \E i \in 1..Len(store.entries) : store.entries[i].license_id = licenseId
        THEN saveRevocationStore(
               [store EXCEPT !.entries =
                  [i \in 1..Len(@) |-> IF @[i].license_id = licenseId THEN entry ELSE @[i]]], at)
        ELSE saveRevocationStore([store EXCEPT !.entries = Append(@, entry)], at)

addRevocation(file, licenseId, reason, at) ==
  LET store == loadRevocationStore(file, at)
  IN  IF \E i \in 1..Len(store.entries) : store.entries[i].license_id = licenseId
        THEN file
        ELSE saveRevocationStore(
               [store EXCEPT !.entries =
                  Append(@, [license_id |-> licenseId, revoked_at |-> at,
                             reason |-> reason])], at)

\* faulty variant: the file is written also when no entry was removed
removeRevocationAlwaysWrites(file, licenseId, at) ==
  LET store == loadRevocationStore(file, at)
      kept == SelectSeq(store.entries, LAMBDA e : e.license_id # licenseId)
  IN  [file |-> saveRevocationStore([store EXCEPT !.entries = kept], at),
       result |-> Len(kept) < Len(store.entries)]

\* lines 105-117: the file afterwards and the value returned
removeRevocation(file, licenseId, at) ==
  LET store == loadRevocationStore(file, at)
      kept == SelectSeq(store.entries, LAMBDA e : e.license_id # licenseId)
  IN  IF Len(kept) < Len(store.entries)
        THEN [file |-> saveRevocationStore([store EXCEPT !.entries = kept], at),
              result |-> TRUE]
        ELSE [file |-> file, result |-> FALSE]

\* lines 76-79
getRevocationInfo(file, licenseId) ==
  LET store == loadRevocationStore(file, Null)
      hits == {i \in 1..Len(store.entries) : store.entries[i].license_id = licenseId}
  IN  IF hits = {} THEN Null
      ELSE store.entries[CHOOSE i \in hits : \A j \in hits : i <= j]

\* lines 122-125
listRevocations(file) == loadRevocationStore(file, Null).entries

\* lines 130-133
getRevocationCount(file) == Len(loadRevocationStore(file, Null).entries)

\* a registry file that a failed or interrupted write has left unparsable
\* (empty or cut short: JSON.parse throws, lines 48-53)
CorruptFile == [kind |-> "corrupt", entries |-> <<>>, last_updated |-> Null]

\* fs.writeFileSync(REVOKED_FILE, ...) of line 62 when the process is killed
\* during the call: the file is opened for truncation, written and closed, so
\* it is left as it was, empty, holding the text cut short (unparsable, the
\* entries written so far are in the text), or complete
writeFileSyncInterrupted(file, content) ==
  {file, CorruptFile, [content EXCEPT !.kind = "corrupt"], content}

\* ------------------------------------------------------------- payment-gateway.ts
Undefined == 0
NoError == "none"

PaymentResult(success, customerId, licenseId, error) ==
  [success |-> success, customerId |-> customerId, licenseId |-> licenseId,
   error |-> error]

InFlight == {s \in Slots : pending[s] # Idle}

\* Bookkeeping of the calls: call is the rank of a call among the calls
\* started, order its rank among the calls returned, repeats tells that the
\* call before it in the slot was given the same event.
CallNo == completed + Cardinality(InFlight) + 1

Return(s, ev, res, call) ==
  /\ returned' = [returned EXCEPT ![s] =
        [kind |-> "payment", event |-> ev, result |-> res, call |-> call,
         order |-> completed + 1,
         repeats |-> (returned[s].kind = "payment" /\ returned[s].event = ev)]]
  /\ completed' = completed + 1

\* faulty variant: expiresAt of the event is not read
LicensePayloadDefaultExpiry(plan, customerId, ev) ==
  [plan |-> plan, customer_id |-> customerId, issued_at |-> now,
   expires_at |-> now + YearTicks, offline_ttl_days |-> OfflineTtlDays]

\* lines 107-118
LicensePayload(plan, customerId, ev) ==
  [plan |-> plan, customer_id |-> customerId, issued_at |-> now,
   expires_at |-> IF ev.expiresAt # Null THEN ev.expiresAt ELSE now + YearTicks,
   offline_ttl_days |-> OfflineTtlDays]

\* lines 98-121, given the rows the lookup of line 96 returned: create the
\* customer when there is none, build the payload, suspend at the await on
\* signLicense
FindOrCreateAndSign(s, ev, found) ==
  LET stripeId == IF ev.provider = "stripe" THEN ev.externalCustomerId ELSE "NULL"
  IN  /\ IF found = {}
           THEN /\ customers' = createCustomer(customers, nextId + 1, ev.email, stripeId, now)
                /\ nextId' = nextId + 1
                /\ pending' = [pending EXCEPT ![s] =
                     [handler |-> "checkout_completed", event |-> ev, call |-> CallNo,
                      customer_id |-> nextId + 1,
                      payload |-> LicensePayload(ev.plan, nextId + 1, ev)]]
           ELSE /\ \E customer \in found :
                     pending' = [pending EXCEPT ![s] =
                       [handler |-> "checkout_completed", event |-> ev, call |-> CallNo,
                        customer_id |-> customer.id,
                        payload |-> LicensePayload(ev.plan, customer.id, ev)]]
                /\ UNCHANGED <<customers, nextId, peerVars>>
      /\ UNCHANGED <<licenses, revokedFile, now, returned, completed, peerVars>>

\* faulty variant: the row a suspended call works on is not yet visible to
\* the lookup of another call (the insert takes effect after the await)
handleCheckoutCompletedLateInsert(s, ev) ==
  FindOrCreateAndSign(s, ev,
    {c \in findCustomerByEmail(ev.email) :
       \A t \in Slots : pending[t] = Idle \/ pending[t].customer_id # c.id})

\* lines 94-121
handleCheckoutCompleted(s, ev) ==
  FindOrCreateAndSign(s, ev, findCustomerByEmail(ev.email))

\* faulty variant: a new license takes the customer out of the registry
InsertLicenseAndReturnReinstating(s) ==
  LET f == pending[s]
      licenseId == nextId + 1
  IN  /\ licenses' = createLicense(licenses, licenseId, f.customer_id, f.event.plan,
                                   f.payload.issued_at, f.payload.expires_at, now)
      /\ revokedFile' = removeRevocation(revokedFile, f.customer_id, now).file
      /\ nextId' = nextId + 1
      /\ pending' = [pending EXCEPT ![s] = Idle]
      /\ Return(s, f.event, PaymentResult(TRUE, f.customer_id, licenseId, NoError), f.call)
      /\ UNCHANGED <<customers, now, peerVars>>

\* lines 122-139 and 174-191: signLicense has resolved; insert the license
\* row and return
InsertLicenseAndReturn(s) ==
  LET f == pending[s]
      licenseId == nextId + 1
  IN  /\ licenses' = createLicense(licenses, licenseId, f.customer_id, f.event.plan,
                                   f.payload.issued_at, f.payload.expires_at, now)
      /\ nextId' = nextId + 1
      /\ pending' = [pending EXCEPT ![s] = Idle]
      /\ Return(s, f.event, PaymentResult(TRUE, f.customer_id, licenseId, NoError), f.call)
      /\ UNCHANGED <<customers, revokedFile, now, peerVars>>

resumeCheckoutCompleted(s) ==
  /\ pending[s].handler = "checkout_completed"
  /\ InsertLicenseAndReturn(s)

\* findLicenseByCustomer found no row
NoLicense == [id |-> Undefined, plan |-> "none"]

SuspendUpdate(s, ev, customer, existingLicense) ==
  /\ pending' = [pending EXCEPT ![s] =
       [handler |-> "subscription_updated", event |-> ev, call |-> CallNo,
        customer_id |-> customer.id, existingLicense |-> existingLicense,
        payload |-> LicensePayload(ev.plan, customer.id, ev)]]
  /\ UNCHANGED <<customers, licenses, revokedFile, now, nextId, returned, completed, peerVars>>

\* faulty variant: an event for an unknown email is treated as a checkout
CustomerNotFoundCreates(s, ev) == handleCheckoutCompleted(s, ev)

\* lines 149-152 and 201-204
CustomerNotFound(s, ev) ==
  /\ Return(s, ev, PaymentResult(FALSE, Undefined, Undefined, "Customer not found"), CallNo)
  /\ UNCHANGED <<customers, licenses, revokedFile, now, nextId, pending, peerVars>>

\* faulty variant: the plan comparison of lines 156-159 is missing
handleSubscriptionUpdatedAlways(s, ev) ==
  LET found == findCustomerByEmail(ev.email)
  IN  IF found = {}
        THEN CustomerNotFound(s, ev)
        ELSE \E customer \in found :
               LET existing == findLicenseByCustomer(customer.id)
               IN  \E existingLicense \in (IF existing = {} THEN {NoLicense} ELSE existing) :
                     SuspendUpdate(s, ev, customer, existingLicense)

\* lines 145-173: the handler returns at line 158 or suspends at the await on
\* signLicense
handleSubscriptionUpdated(s, ev) ==
  LET found == findCustomerByEmail(ev.email)
  IN  IF found = {}
        THEN CustomerNotFound(s, ev)
        ELSE \E customer \in found :
               LET existing == findLicenseByCustomer(customer.id)
               IN  \E existingLicense \in (IF existing = {} THEN {NoLicense} ELSE existing) :
                     IF existingLicense # NoLicense /\ existingLicense.plan = ev.plan
                       THEN /\ Return(s, ev, PaymentResult(TRUE, customer.id, Undefined, NoError), CallNo)
                            /\ UNCHANGED <<customers, licenses, revokedFile, now, nextId, pending, peerVars>>
                       ELSE SuspendUpdate(s, ev, customer, existingLicense)

resumeSubscriptionUpdated(s) ==
  /\ pending[s].handler = "subscription_updated"
  /\ InsertLicenseAndReturn(s)

\* faulty variant: only the license inserted last is stamped
StampRevokedLatestOnly(table, customerId, at) ==
  [i \in 1..Len(table) |->
     IF /\ table[i].customer_id = customerId
        /\ table[i].revoked_at = Null
        /\ \A j \in 1..Len(table) : table[j].customer_id = customerId => j <= i
       THEN [table[i] EXCEPT !.revoked_at = at]
       ELSE table[i]]

\* faulty variant: the UPDATE lacks "AND revoked_at IS NULL"
StampRevokedAgain(table, customerId, at) ==
  [i \in 1..Len(table) |->
     IF table[i].customer_id = customerId
       THEN [table[i] EXCEPT !.revoked_at = at]
       ELSE table[i]]

\* UPDATE licenses SET revoked_at = ? WHERE customer_id = ? AND revoked_at IS NULL
\* faulty variant: UPDATE without the customer_id condition
StampRevokedEveryCustomer(table, customerId, at) ==
  [i \in 1..Len(table) |->
     IF table[i].revoked_at = Null
       THEN [table[i] EXCEPT !.revoked_at = at]
       ELSE table[i]]

StampRevoked(table, customerId, at) ==
  [i \in 1..Len(table) |->
     IF table[i].customer_id = customerId /\ table[i].revoked_at = Null
       THEN [table[i] EXCEPT !.revoked_at = at]
       ELSE table[i]]

\* lines 197-222 (no await: the handler runs to its return)
handleSubscriptionCancelled(s, ev) ==
  LET found == findCustomerByEmail(ev.email)
  IN  IF found = {}
        THEN CustomerNotFound(s, ev)
        ELSE \E customer \in found :
               /\ revokedFile' = addRevocation(revokedFile, customer.id,
                                    <<"Subscription cancelled via", ev.provider>>, now)
               /\ licenses' = StampRevoked(licenses, customer.id, now)
               /\ Return(s, ev, PaymentResult(TRUE, customer.id, Undefined, NoError), CallNo)
               /\ UNCHANGED <<customers, now, nextId, pending, peerVars>>

\* faulty variant: a failed payment revokes like a cancellation
handlePaymentFailedRevoking(s, ev) == handleSubscriptionCancelled(s, ev)

\* lines 227-235
handlePaymentFailed(s, ev) ==
  /\ Return(s, ev, PaymentResult(TRUE, Undefined, Undefined, NoError), CallNo)
  /\ UNCHANGED <<customers, licenses, revokedFile, now, nextId, pending, peerVars>>

\* `Unknown event type: ${event.eventType}`
UnknownEventTypeMessage(type) ==
  CASE type = "refund_issued" -> "Unknown event type: refund_issued"
    [] type = "checkout_expired" -> "Unknown event type: checkout_expired"
    [] OTHER -> "Unknown event type: "

\* faulty variant: an unknown event type is acknowledged like a failed payment
UnknownEventTypeAcknowledged(s, ev) == handlePaymentFailed(s, ev)

\* lines 82-83
UnknownEventType(s, ev) ==
  /\ Return(s, ev, PaymentResult(FALSE, Undefined, Undefined,
                                 UnknownEventTypeMessage(ev.eventType)), CallNo)
  /\ UNCHANGED <<customers, licenses, revokedFile, now, nextId, pending, peerVars>>

\* lines 65-89
processPaymentEvent(s, ev) ==
  /\ pending[s] = Idle
  /\ CASE ev.eventType = "checkout_completed" -> handleCheckoutCompleted(s, ev)
       [] ev.eventType = "subscription_updated" -> handleSubscriptionUpdated(s, ev)
       [] ev.eventType = "subscription_cancelled" -> handleSubscriptionCancelled(s, ev)
       [] ev.eventType = "payment_failed" -> handlePaymentFailed(s, ev)
       [] OTHER -> UnknownEventType(s, ev)

\* ---- faults inside processPaymentEvent
\* What the handlers throw, as String(err) renders it.
DbNotInitialized == "Error: Database not initialized. Call initDb() first."
InsertFailed == "Error: INSERT failed"
SignFailed == "Error: signing failed"
RegistryWriteFailed == "Error: writeFileSync failed"
UpdateFailed == "Error: UPDATE failed"

\* faulty variant: no try/catch, the promise of the call is rejected
Uncaught(s, ev, err, call) ==
  /\ returned' = [returned EXCEPT ![s] =
        [kind |-> "rejected", event |-> ev, error |-> err, call |-> call,
         order |-> completed + 1]]
  /\ completed' = completed + 1

\* lines 85-88: the catch of processPaymentEvent
Catch(s, ev, err, call) ==
  Return(s, ev, PaymentResult(FALSE, Undefined, Undefined, err), call)

\* The database is not initialised: the first statement of the handler,
\* findCustomerByEmail, throws in getDb (db.ts lines 46-51).  handlePaymentFailed
\* and the default branch do not touch the database.
getDbThrows(s, ev) ==
  /\ pending[s] = Idle
  /\ ev.eventType \in {"checkout_completed", "subscription_updated", "subscription_cancelled"}
  /\ Catch(s, ev, DbNotInitialized, CallNo)
  /\ UNCHANGED <<customers, licenses, revokedFile, now, nextId, pending, peerVars>>

\* createCustomer throws at line 102: in the INSERT (no row) or in saveDb
\* (the row stays in the database in memory)
createCustomerFails(s, ev) ==
  LET stripeId == IF ev.provider = "stripe" THEN ev.externalCustomerId ELSE "NULL"
  IN  /\ pending[s] = Idle
      /\ ev.eventType = "checkout_completed"
      /\ findCustomerByEmail(ev.email) = {}
      /\ \/ customers' = customers
         \/ customers' = createCustomer(customers, nextId + 1, ev.email, stripeId, now)
      /\ nextId' = nextId + 1
      /\ Catch(s, ev, InsertFailed, CallNo)
      /\ UNCHANGED <<licenses, revokedFile, now, pending, peerVars>>

\* fs.writeFileSync throws in saveRevocationStore, called by addRevocation at
\* line 207: the file is as it was or is left unparsable; the UPDATE of
\* lines 210-213 is not reached
addRevocationFails(s, ev) ==
  /\ pending[s] = Idle
  /\ ev.eventType = "subscription_cancelled"
  /\ \E customer \in findCustomerByEmail(ev.email) : ~isRevoked(customer.id)
  /\ \E customer \in findCustomerByEmail(ev.email) :
       LET content == addRevocation(revokedFile, customer.id,
                                    <<"Subscription cancelled via", ev.provider>>, now)
       IN  revokedFile' \in writeFileSyncInterrupted(revokedFile, content) \ {content}
  /\ Catch(s, ev, RegistryWriteFailed, CallNo)
  /\ UNCHANGED <<customers, licenses, now, nextId, pending, peerVars>>

\* The UPDATE of lines 210-213 throws (no row is stamped) or saveDb of line
\* 214 throws (the rows stay stamped in the database in memory); addRevocation
\* of line 207 has written the registry file
updateLicensesFails(s, ev) ==
  /\ pending[s] = Idle
  /\ ev.eventType = "subscription_cancelled"
  /\ \E customer \in findCustomerByEmail(ev.email) :
       /\ revokedFile' = addRevocation(revokedFile, customer.id,
                            <<"Subscription cancelled via", ev.provider>>, now)
       /\ licenses' \in {licenses, StampRevoked(licenses, customer.id, now)}
  /\ Catch(s, ev, UpdateFailed, CallNo)
  /\ UNCHANGED <<customers, now, nextId, pending, peerVars>>

\* the promise of signLicense is rejected (lines 121 and 173)
signLicenseRejects(s) ==
  /\ pending[s].handler \in {"checkout_completed", "subscription_updated"}
  /\ pending' = [pending EXCEPT ![s] = Idle]
  /\ Catch(s, pending[s].event, SignFailed, pending[s].call)
  /\ UNCHANGED <<customers, licenses, revokedFile, now, nextId, peerVars>>

\* createLicense throws (lines 123 and 175): in the INSERT (no row) or in
\* saveDb (the row stays in the database in memory)
createLicenseFails(s) ==
  LET f == pending[s]
  IN  /\ f.handler \in {"checkout_completed", "subscription_updated"}
      /\ \/ licenses' = licenses
         \/ licenses' = createLicense(licenses, nextId + 1, f.customer_id, f.event.plan,
                                      f.payload.issued_at, f.payload.expires_at, now)
      /\ nextId' = nextId + 1
      /\ pending' = [pending EXCEPT ![s] = Idle]
      /\ Catch(s, f.event, InsertFailed, f.call)
      /\ UNCHANGED <<customers, revokedFile, now, peerVars>>

\* ------------------------------------------------------------- routes/license.ts
DayTicks == 24 * 60 * 60 * TicksPerSec

\* faulty variant: the length of the key is not checked
validateApiKeyPrefixOnly(key) == key.prefix = "vibe_sk_"

\* src/src/lib/config.ts lines 178-181
validateApiKey(key) == key.prefix = "vibe_sk_" /\ key.length > 20

IssueReturn(s, req, status, license, call) ==
  /\ returned' = [returned EXCEPT ![s] =
        [kind |-> "issue", request |-> req, status |-> status,
         license |-> license, call |-> call, order |-> completed + 1]]
  /\ completed' = completed + 1

HasCustomerId(id) == \E i \in 1..Len(customers) : customers[i].id = id

IssuePayload(req, customerId) ==
  [plan |-> req.plan, customer_id |-> customerId, issued_at |-> now,
   expires_at |-> now + req.duration_days * DayTicks,
   offline_ttl_days |-> OfflineTtlDays]

\* lines 56-95: check the key and the body, find or create the customer,
\* build the payload, suspend at the await on signLicense
issueLicense(s, req) ==
  LET found == findCustomerByEmail(req.email)
      customerId == IF req.customer_id # 0 THEN req.customer_id ELSE nextId + 1
  IN  /\ pending[s] = Idle
      /\ IF req.apiKey = NoKey \/ ~validateApiKey(req.apiKey)
           THEN /\ IssueReturn(s, req, 401, Null, CallNo)
                /\ UNCHANGED <<customers, licenses, revokedFile, now, nextId, pending, peerVars>>
           ELSE IF ~req.json
           THEN \* line 63: c.req.json() rejects; caught at line 102
                /\ IssueReturn(s, req, 500, Null, CallNo)
                /\ UNCHANGED <<customers, licenses, revokedFile, now, nextId, pending, peerVars>>
           ELSE IF req.email = Missing \/ req.plan = Missing \/ req.duration_days = 0
           THEN /\ IssueReturn(s, req, 400, Null, CallNo)
                /\ UNCHANGED <<customers, licenses, revokedFile, now, nextId, pending, peerVars>>
           ELSE IF found = {} /\ HasCustomerId(customerId)
           THEN \* INSERT fails on the primary key; caught at line 102
                /\ IssueReturn(s, req, 500, Null, CallNo)
                /\ nextId' = IF req.customer_id # 0 THEN nextId ELSE nextId + 1
                /\ UNCHANGED <<customers, licenses, revokedFile, now, pending, peerVars>>
           ELSE IF found = {}
           THEN /\ customers' = createCustomer(customers, customerId, req.email, "NULL", now)
                /\ nextId' = IF req.customer_id # 0 THEN nextId ELSE nextId + 1
                /\ pending' = [pending EXCEPT ![s] =
                     [handler |-> "issue", request |-> req, call |-> CallNo,
                      customer_id |-> customerId,
                      payload |-> IssuePayload(req, customerId)]]
                /\ UNCHANGED <<licenses, revokedFile, now, returned, completed, peerVars>>
           ELSE /\ \E customer \in found :
                     pending' = [pending EXCEPT ![s] =
                       [handler |-> "issue", request |-> req, call |-> CallNo,
                        customer_id |-> customer.id,
                        payload |-> IssuePayload(req, customer.id)]]
                /\ UNCHANGED <<customers, licenses, revokedFile, now, nextId,
                               returned, completed, peerVars>>

\* lines 97-101: signLicense has resolved; insert the license row and answer
resumeIssueLicense(s) ==
  LET f == pending[s]
  IN  /\ f.handler = "issue"
      /\ licenses' = createLicense(licenses, nextId + 1, f.customer_id, f.request.plan,
                                   f.payload.issued_at, f.payload.expires_at, now)
      /\ nextId' = nextId + 1
      /\ pending' = [pending EXCEPT ![s] = Idle]
      /\ IssueReturn(s, f.request, 200, f.payload, f.call)
      /\ UNCHANGED <<customers, revokedFile, now, peerVars>>

\* ------------------------------------------------------------- license.ts
\* (src/unnamed/part_002)
\* The key pair of config.licensePrivateKey and config.licensePublicKey, and
\* a key pair that is not the server's.
ServerKey == "server_key"
OtherKey == "other_key"

\* An Ed25519 signature is determined by the key and the message; it verifies
\* under the public key of that key and for that message only, and only when
\* all its bytes are there.
Sign(key, message) == [key |-> key, message |-> message, complete |-> TRUE]

Verify(signature, message, key) ==
  signature.complete /\ signature.key = key /\ signature.message = message

\* lines 81-87.  A base64 text is the alphabet characters that carry the
\* bytes (written here as the bytes they decode to), the number of trailing
\* "=" and the number of characters outside the alphabet.
\* Buffer.from(text, "base64") decodes the alphabet characters, skips the
\* characters outside the alphabet, needs no padding and never throws.
bytesToBase64(bytes) == [symbols |-> bytes, padding |-> 2, other |-> 0]

\* what a text without alphabet characters decodes to: no bytes
GarbageBytes == [key |-> "none", message |-> <<>>, complete |-> FALSE]

base64ToBytes(text) == text.symbols

\* the property names that occur, in lexicographic order
KeyOrder ==
  <<"customer_id", "expires_at", "issued_at", "note", "offline_ttl_days", "plan",
    "signature">>

\* A JavaScript object is a sequence of <<key, value>> pairs in insertion
\* order.  Object.keys, Array.prototype.sort on distinct strings, and
\* JSON.stringify(obj, keys), which writes the listed properties in the order
\* of the list.
ObjectKeys(obj) == [i \in 1..Len(obj) |-> obj[i][1]]

SortKeys(keys) == SelectSeq(KeyOrder, LAMBDA k : \E i \in 1..Len(keys) : keys[i] = k)

ValueOf(obj, key) == obj[CHOOSE i \in 1..Len(obj) : obj[i][1] = key][2]

Stringify(obj, keys) == [i \in 1..Len(keys) |-> <<keys[i], ValueOf(obj, keys[i])>>]

\* faulty variant: JSON.stringify(obj) without the sorted key list
canonicalizeUnsorted(obj) == Stringify(obj, ObjectKeys(obj))

\* lines 68-71: JSON.stringify(obj, Object.keys(obj).sort())
canonicalize(obj) == Stringify(obj, SortKeys(ObjectKeys(obj)))

\* The object of a record: its properties in the order in which the payload
\* literals (payload-gateway.ts lines 112-118) and signLicense insert them.
InsertionOrder ==
  <<"plan", "customer_id", "issued_at", "expires_at", "offline_ttl_days", "note",
    "signature">>

ObjectOf(record) ==
  LET keys == SelectSeq(InsertionOrder, LAMBDA k : k \in DOMAIN record)
  IN  [i \in 1..Len(keys) |-> <<keys[i], record[keys[i]]>>]

\* lines 23-32: { ...payload, signature }
signLicenseWith(payload, key) ==
  [k \in DOMAIN payload \cup {"signature"} |->
     IF k = "signature"
       THEN bytesToBase64(Sign(key, canonicalize(ObjectOf(payload))))
       ELSE payload[k]]

signLicense(payload) == signLicenseWith(payload, ServerKey)

\* const { signature, ...payload } = license
WithoutSignature(license) == [k \in DOMAIN license \ {"signature"} |-> license[k]]

\* lines 39-44, the body of the try: it throws for a value that is not an
\* object (no signature to decode) and for a signature that lacks bytes, and
\* returns what ed.verifyAsync returns otherwise
verifyLicenseBody(credential) ==
  IF ~credential.object
    THEN [threw |-> TRUE, value |-> FALSE]
    ELSE LET sig == base64ToBytes(credential.license.signature)
         IN  IF ~sig.complete
               THEN [threw |-> TRUE, value |-> FALSE]
               ELSE [threw |-> FALSE,
                     value |-> Verify(sig, canonicalize(ObjectOf(WithoutSignature(credential.license))),
                                      ServerKey)]

\* lines 37-48: the catch turns a throw into false
verifyLicense(credential) ==
  LET body == verifyLicenseBody(credential)
  IN  IF body.threw THEN FALSE ELSE body.value

\* lines 53-56 and 61-65.  Instants are milliseconds (Date.getTime()); an ISO
\* string written by toISOString has millisecond resolution and is read back
\* by new Date(...) to the same instant.
DayMs == 24 * 60 * 60 * 1000

toISOString(ms) == [iso |-> ms]

DateOf(text) == text.iso

\* faulty variant: a credential is expired from its expiry instant on
isLicenseExpiredAtExpiry(license, at) == DateOf(license.expires_at) <= at

isLicenseExpired(license, at) == DateOf(license.expires_at) < at

\* faulty variant: the deadline itself is within the TTL
isWithinOfflineTTLInclusive(license, lastVerified, at) ==
  at <= lastVerified + license.offline_ttl_days * DayMs

isWithinOfflineTTL(license, lastVerified, at) ==
  LET ttlMs == license.offline_ttl_days * DayMs
      deadline == lastVerified + ttlMs
  IN  at < deadline

\* ------------------------------------------------------------- POST /v1/license/verify
\* What body.license is: missing, a base64 text that does not decode to
\* JSON, a JSON value that is not an object, or a JSON object.
MissingLicense == [kind |-> "missing"]
NotJson == [kind |-> "text"]
JsonNull == [kind |-> "json", object |-> FALSE]

\* payloads of credentials: expiring a year after issue, and expiring at the
\* instant of issue (expired once the clock has advanced)
CredentialPayloads ==
  {[plan |-> "PRO", customer_id |-> c, issued_at |-> 1, expires_at |-> e,
    offline_ttl_days |-> OfflineTtlDays] : c \in Subjects, e \in {1, 1 + YearTicks}}

\* credentials the server has signed
GenuineLicenses == {signLicense(payload) : payload \in CredentialPayloads}

\* credentials with the customer_id changed after signing, and credentials
\* signed with another key
ForgedLicenses ==
  {[l EXCEPT !.customer_id = c] : l \in GenuineLicenses, c \in Subjects} \ GenuineLicenses

ForeignLicenses == {signLicenseWith(payload, OtherKey) : payload \in CredentialPayloads}

Credentials ==
  {MissingLicense, NotJson, JsonNull}
    \cup {[kind |-> "json", object |-> TRUE, license |-> l] :
            l \in GenuineLicenses \cup ForgedLicenses \cup ForeignLicenses}

MinimumVersion == "1.0.0"
PolicyFlags ==
  [minimum_version |-> MinimumVersion,
   features_enabled |-> <<"ant_lane", "scorecard", "policy_analysis", "auto_fix">>,
   maintenance_mode |-> FALSE]

VerifyReturn(s, credential, status, response, call) ==
  /\ returned' = [returned EXCEPT ![s] =
        [kind |-> "verify", credential |-> credential, status |-> status,
         response |-> response, call |-> call, order |-> completed + 1]]
  /\ completed' = completed + 1

\* lines 121-140: the request is answered at once when the license is
\* missing or does not decode, and suspends at the await on verifyLicense
\* otherwise
verifyRequest(s, credential) ==
  /\ pending[s] = Idle
  /\ IF credential = MissingLicense
       THEN /\ VerifyReturn(s, credential, 400, [error |-> "INVALID_REQUEST"], CallNo)
            /\ UNCHANGED pending
       ELSE IF credential = NotJson
       THEN /\ VerifyReturn(s, credential, 200,
                   [valid |-> FALSE, reason |-> "INVALID_FORMAT", server_time |-> now], CallNo)
            /\ UNCHANGED pending
       ELSE /\ pending' = [pending EXCEPT ![s] =
                  [handler |-> "verify", credential |-> credential, call |-> CallNo]]
            /\ UNCHANGED <<returned, completed, peerVars>>
  /\ UNCHANGED <<customers, licenses, revokedFile, now, nextId, peerVars>>

\* faulty variant: the registry is consulted before the signature
verifyResponseRevocationFirst(file, credential, at) ==
  LET licenseId == IF credential.object THEN credential.license.customer_id ELSE Undefined
      revocationInfo == getRevocationInfo(file, licenseId)
  IN  IF isRevokedIn(file, licenseId)
        THEN [valid |-> FALSE, reason |-> "REVOKED", revoked |-> TRUE,
              revoked_at |-> revocationInfo.revoked_at,
              revocation_reason |-> revocationInfo.reason, server_time |-> at]
      ELSE IF ~verifyLicense(credential)
        THEN [valid |-> FALSE, reason |-> "INVALID_SIGNATURE", server_time |-> at]
      ELSE [valid |-> TRUE, revoked |-> FALSE, server_time |-> at,
            policy_flags |-> PolicyFlags]

\* faulty variant: the answer is derived from the license rows of the store
verifyResponseFromStore(file, credential, at) ==
  IF ~verifyLicense(credential)
    THEN [valid |-> FALSE, reason |-> "INVALID_SIGNATURE", server_time |-> at]
  ELSE LET active == findLicenseByCustomer(credential.license.customer_id)
       IN  IF active = {}
             THEN [valid |-> FALSE, reason |-> "REVOKED", revoked |-> TRUE, server_time |-> at]
             ELSE [valid |-> TRUE, revoked |-> FALSE, server_time |-> at,
                   policy_flags |-> PolicyFlags,
                   plan |-> (CHOOSE l \in active : TRUE).plan]

\* faulty variant: a credential past its expires_at is refused
verifyResponseCheckingExpiry(file, credential, at) ==
  IF ~verifyLicense(credential)
    THEN [valid |-> FALSE, reason |-> "INVALID_SIGNATURE", server_time |-> at]
  ELSE IF credential.license.expires_at < at
    THEN [valid |-> FALSE, reason |-> "EXPIRED", server_time |-> at]
  ELSE IF isRevokedIn(file, credential.license.customer_id)
    THEN [valid |-> FALSE, reason |-> "REVOKED", revoked |-> TRUE,
          revoked_at |-> getRevocationInfo(file, credential.license.customer_id).revoked_at,
          revocation_reason |-> getRevocationInfo(file, credential.license.customer_id).reason,
          server_time |-> at]
  ELSE [valid |-> TRUE, revoked |-> FALSE, server_time |-> at, policy_flags |-> PolicyFlags]

\* lines 140-175: the answer once verifyLicense has resolved, given the
\* registry file at that moment
verifyResponse(file, credential, at) ==
  IF ~verifyLicense(credential)
    THEN [valid |-> FALSE, reason |-> "INVALID_SIGNATURE", server_time |-> at]
  ELSE LET licenseId == credential.license.customer_id
           revocationInfo == getRevocationInfo(file, licenseId)
       IN  IF isRevokedIn(file, licenseId)
             THEN [valid |-> FALSE, reason |-> "REVOKED", revoked |-> TRUE,
                   revoked_at |-> revocationInfo.revoked_at,
                   revocation_reason |-> revocationInfo.reason, server_time |-> at]
             ELSE [valid |-> TRUE, revoked |-> FALSE, server_time |-> at,
                   policy_flags |-> PolicyFlags]

resumeVerify(s) ==
  LET f == pending[s]
  IN  /\ f.handler = "verify"
      /\ pending' = [pending EXCEPT ![s] = Idle]
      /\ VerifyReturn(s, f.credential, 200, verifyResponse(revokedFile, f.credential, now), f.call)
      /\ UNCHANGED <<customers, licenses, revokedFile, now, nextId, peerVars>>

\* the wall clock advances
Tick ==
  /\ now < MaxTime
  /\ now' = now + 1
  /\ UNCHANGED <<customers, licenses, revokedFile, nextId, pending, returned, completed, peerVars>>

\* ------------------------------------------------------------- specifications
Init ==
  /\ customers = <<>>
  /\ licenses = <<>>
  /\ revokedFile = NoFile
  /\ now = 1
  /\ nextId = 0
  /\ pending = [s \in Slots |-> Idle]
  /\ returned = [s \in Slots |-> NoCall]
  /\ completed = 0
  /\ peers = {}
  /\ uuids = 0
  /\ replied = NoReply

\* Events are processed one after the other: a call starts only when no call
\* is suspended.
ProcessSequentially ==
  \E ev \in Events :
    /\ InFlight = {}
    /\ completed < MaxCalls
    /\ processPaymentEvent(1, ev)

IssueSequentially ==
  \E req \in IssueRequests :
    /\ InFlight = {}
    /\ completed < MaxCalls
    /\ issueLicense(1, req)

Next ==
  \/ ProcessSequentially
  \/ resumeCheckoutCompleted(1)
  \/ resumeSubscriptionUpdated(1)
  \/ Tick

Spec == Init /\ [][Next]_vars

\* The operator endpoint next to the gateway, one call after the other.
ProcessOperatorEvent ==
  \E ev \in OperatorEvents :
    /\ InFlight = {}
    /\ completed < MaxCalls
    /\ processPaymentEvent(1, ev)

NextIssue ==
  \/ IssueSequentially
  \/ resumeIssueLicense(1)
  \/ ProcessOperatorEvent
  \/ resumeCheckoutCompleted(1)
  \/ resumeSubscriptionUpdated(1)
  \/ Tick

SpecIssue == Init /\ [][NextIssue]_vars

\* Calls overlap: a call starts in any idle slot while others are suspended
\* at their await.
ProcessConcurrently ==
  \E ev \in ConcEvents : \E s \in Slots :
    /\ \A t \in Slots : t < s => pending[t] # Idle
    /\ completed + Cardinality(InFlight) < MaxCalls
    /\ processPaymentEvent(s, ev)

NextConc ==
  \/ ProcessConcurrently
  \/ \E s \in Slots : resumeCheckoutCompleted(s)
  \/ \E s \in Slots : resumeSubscriptionUpdated(s)
  \/ Tick

SpecConc == Init /\ [][NextConc]_vars

\* The gateway with faults of the database, the signer and the registry file,
\* one call after the other.
ProcessFaultEvent ==
  \E ev \in FaultEvents :
    /\ InFlight = {}
    /\ completed < MaxCalls
    /\ processPaymentEvent(1, ev)

FailAtGetDb ==
  \E ev \in FaultEvents : completed < MaxCalls /\ getDbThrows(1, ev)

FailAtCreateCustomer ==
  \E ev \in FaultEvents : completed < MaxCalls /\ createCustomerFails(1, ev)

FailAtAddRevocation ==
  \E ev \in FaultEvents : completed < MaxCalls /\ addRevocationFails(1, ev)

FailAtUpdateLicenses ==
  \E ev \in FaultEvents : completed < MaxCalls /\ updateLicensesFails(1, ev)

NextFault ==
  \/ ProcessFaultEvent
  \/ FailAtGetDb
  \/ FailAtCreateCustomer
  \/ FailAtAddRevocation
  \/ FailAtUpdateLicenses
  \/ resumeCheckoutCompleted(1)
  \/ resumeSubscriptionUpdated(1)
  \/ signLicenseRejects(1)
  \/ createLicenseFails(1)
  \/ Tick

SpecFault == Init /\ [][NextFault]_vars

\* The revocation registry on its own: additions, removals, and a process
\* that is killed inside a write and started again (the registry keeps
\* nothing in memory, every operation reads the file).
RegistryReturn(op, subject, result, crashed) ==
  /\ returned' = [returned EXCEPT ![1] =
        [kind |-> "registry", op |-> op, subject |-> subject, result |-> result,
         crashed |-> crashed, order |-> completed + 1]]
  /\ completed' = completed + 1
  /\ UNCHANGED <<customers, licenses, now, nextId, pending, peerVars>>

AddRevocation ==
  \E subject \in Subjects : \E reason \in Reasons :
    /\ completed < MaxCalls
    /\ revokedFile' = addRevocation(revokedFile, subject, reason, now)
    /\ RegistryReturn("add", subject, Null, FALSE)

RemoveRevocation ==
  \E subject \in Subjects :
    /\ completed < MaxCalls
    /\ revokedFile' = removeRevocation(revokedFile, subject, now).file
    /\ RegistryReturn("remove", subject, removeRevocation(revokedFile, subject, now).result, FALSE)

CrashInAddRevocation ==
  \E subject \in Subjects : \E reason \in Reasons :
    /\ completed < MaxCalls
    /\ ~isRevoked(subject)
    /\ revokedFile' \in writeFileSyncInterrupted(revokedFile,
                           addRevocation(revokedFile, subject, reason, now))
    /\ RegistryReturn("add", subject, Null, TRUE)

CrashInRemoveRevocation ==
  \E subject \in Subjects :
    /\ completed < MaxCalls
    /\ isRevoked(subject)
    /\ revokedFile' \in writeFileSyncInterrupted(revokedFile,
                           removeRevocation(revokedFile, subject, now).file)
    /\ RegistryReturn("remove", subject, Null, TRUE)

\* Verification requests next to the registry operations; the registry may
\* change while a request is suspended at its await.
VerifyCredential ==
  \E credential \in Credentials :
    /\ completed + Cardinality(InFlight) < MaxCalls
    /\ verifyRequest(1, credential)

NextRegistry ==
  \/ AddRevocation
  \/ RemoveRevocation
  \/ CrashInAddRevocation
  \/ CrashInRemoveRevocation
  \/ VerifyCredential
  \/ resumeVerify(1)
  \/ Tick

SpecRegistry == Init /\ [][NextRegistry]_vars

\* Verification requests next to the gateway events that fill the store and
\* the registry, one call after the other.
StoreCredentials ==
  {c \in Credentials \ {MissingLicense, JsonNull} :
     c = NotJson \/ c.license \in GenuineLicenses}

ProcessVerifyEvent ==
  \E ev \in VerifyEvents :
    /\ InFlight = {}
    /\ completed < MaxVerifyCalls
    /\ processPaymentEvent(1, ev)

VerifyStoreCredential ==
  \E credential \in StoreCredentials :
    /\ completed < MaxVerifyCalls
    /\ verifyRequest(1, credential)

NextVerify ==
  \/ ProcessVerifyEvent
  \/ resumeCheckoutCompleted(1)
  \/ resumeSubscriptionUpdated(1)
  \/ VerifyStoreCredential
  \/ resumeVerify(1)
  \/ Tick

SpecVerify == Init /\ [][NextVerify]_vars

\* Checkouts only, one call after the other.
ProcessCheckoutEvent ==
  \E ev \in CheckoutEvents :
    /\ InFlight = {}
    /\ completed < MaxCalls
    /\ processPaymentEvent(1, ev)

NextCheckout ==
  \/ ProcessCheckoutEvent
  \/ resumeCheckoutCompleted(1)
  \/ Tick

SpecCheckout == Init /\ [][NextCheckout]_vars

\* Checkouts and cancellations of two customers by both providers, one call
\* after the other.
ProcessCancelEvent ==
  \E ev \in CancelEvents :
    /\ InFlight = {}
    /\ completed < MaxCancelCalls
    /\ processPaymentEvent(1, ev)

NextCancel ==
  \/ ProcessCancelEvent
  \/ resumeCheckoutCompleted(1)
  \/ Tick

SpecCancel == Init /\ [][NextCancel]_vars

\* The calls of the scenario in order, all for the email of the first call;
\* provider and expiresAt of each event are free.
ScenarioEvents(k) ==
  {ev \in PaymentEvent :
     /\ ev.eventType = Scenario[k].eventType
     /\ ev.plan = Scenario[k].plan
     /\ k > 1 => ev.email = returned[1].event.email}

ProcessScenarioEvent ==
  /\ InFlight = {}
  /\ completed < Len(Scenario)
  /\ \E ev \in ScenarioEvents(completed + 1) : processPaymentEvent(1, ev)

NextScenario ==
  \/ ProcessScenarioEvent
  \/ resumeCheckoutCompleted(1)
  \/ resumeSubscriptionUpdated(1)
  \/ Tick

SpecScenario == Init /\ [][NextScenario]_vars

\* The functions of license.ts on their own: payloads, the ways a signed
\* credential is altered before it is verified (a signature text cut inside
\* its data or cut by its trailing "=" only, a text with no base64 character
\* or with a newline appended), objects with their
\* properties in every insertion order, and instants around the deadlines.
SignPayloads ==
  [plan : Plans, customer_id : Subjects, issued_at : {1}, expires_at : {1, 1 + YearTicks},
   offline_ttl_days : {0, OfflineTtlDays}]

Tamperings ==
  {"none", "plan", "customer_id", "issued_at", "expires_at", "offline_ttl_days",
   "field_added", "other_key", "truncated_data", "truncated_padding", "not_base64",
   "invalid_character", "not_object"}

Tampered(payload, tampering) ==
  LET signed == signLicense(payload)
      license ==
        CASE tampering = "plan" ->
               [signed EXCEPT !.plan = IF @ = "PRO" THEN "FREE" ELSE "PRO"]
          [] tampering = "customer_id" ->
               [signed EXCEPT !.customer_id = CHOOSE c \in Subjects : c # @]
          [] tampering = "issued_at" -> [signed EXCEPT !.issued_at = @ + 1]
          [] tampering = "expires_at" -> [signed EXCEPT !.expires_at = @ + 1]
          [] tampering = "offline_ttl_days" -> [signed EXCEPT !.offline_ttl_days = @ + 1]
          [] tampering = "field_added" ->
               [k \in DOMAIN signed \cup {"note"} |-> IF k = "note" THEN "x" ELSE signed[k]]
          [] tampering = "other_key" -> signLicenseWith(payload, OtherKey)
          [] tampering = "truncated_data" ->
               [signed EXCEPT !.signature.symbols.complete = FALSE, !.signature.padding = 0]
          [] tampering = "truncated_padding" -> [signed EXCEPT !.signature.padding = 0]
          [] tampering = "not_base64" ->
               [signed EXCEPT !.signature = [symbols |-> GarbageBytes, padding |-> 0, other |-> 3]]
          [] tampering = "invalid_character" -> [signed EXCEPT !.signature.other = 1]
          [] OTHER -> signed
  IN  IF tampering = "not_object" THEN JsonNull
      ELSE [kind |-> "json", object |-> TRUE, license |-> license]

PayloadKeys == <<"plan", "customer_id", "issued_at", "expires_at", "offline_ttl_days">>

InsertionOrders ==
  {f \in [1..Len(PayloadKeys) -> 1..Len(PayloadKeys)] :
     \A i, j \in 1..Len(PayloadKeys) : f[i] = f[j] => i = j}

CanonPayloads == {payload \in SignPayloads : payload.expires_at = 1 /\ payload.offline_ttl_days = 0}

ObjectInOrder(payload, f) ==
  [i \in 1..Len(PayloadKeys) |-> <<PayloadKeys[f[i]], payload[PayloadKeys[f[i]]]>>]

LastVerifiedInputs == {0, 5}
TtlDays == 0..MaxTtlDays

Instants ==
  {lastVerified + days * DayMs + delta :
     lastVerified \in LastVerifiedInputs, days \in TtlDays, delta \in {-1, 0, 1}} \cap Nat

LicenseReturn(record) ==
  /\ returned' = [returned EXCEPT ![1] = record]
  /\ UNCHANGED <<customers, licenses, revokedFile, now, nextId, pending, completed, peerVars>>

\* (TLC keeps the fields of a record in the order of its own table of names;
\* the records below list them in that order.)
SignAndVerify ==
  \E p \in SignPayloads : \E t \in Tamperings :
    LicenseReturn([kind |-> "verifyLicense",
                   result |-> verifyLicense(Tampered(p, t)),
                   payload |-> p, tampering |-> t])

Canonicalize ==
  \E p \in CanonPayloads : \E f \in InsertionOrders :
    LicenseReturn([kind |-> "canonicalize",
                   result |-> canonicalize(ObjectInOrder(p, f)),
                   payload |-> p,
                   object |-> ObjectInOrder(p, f),
                   reference |-> canonicalize(ObjectOf(p))])

CheckOfflineTTL ==
  \E days \in TtlDays : \E last \in LastVerifiedInputs :
    LicenseReturn([kind |-> "isWithinOfflineTTL",
                   result |-> isWithinOfflineTTL([offline_ttl_days |-> days], last, now),
                   offline_ttl_days |-> days, lastVerified |-> last])

CheckExpired ==
  \E expiresAt \in Instants :
    LicenseReturn([kind |-> "isLicenseExpired", expires_at |-> toISOString(expiresAt),
                   result |-> isLicenseExpired([expires_at |-> toISOString(expiresAt)], now)])

\* the clock shows any of the instants
InitLicense ==
  /\ customers = <<>>
  /\ licenses = <<>>
  /\ revokedFile = NoFile
  /\ now \in Instants
  /\ nextId = 0
  /\ pending = [s \in Slots |-> Idle]
  /\ returned = [s \in Slots |-> NoCall]
  /\ completed = 0
  /\ peers = {}
  /\ uuids = 0
  /\ replied = NoReply

NextLicense ==
  \/ SignAndVerify
  \/ Canonicalize
  \/ CheckOfflineTTL
  \/ CheckExpired

SpecLicense == InitLicense /\ [][NextLicense]_vars

\* ------------------------------------------------------------- peer discovery
\* The peer registry of the discovery endpoints.  In the specifications of
\* this section the clock counts minutes; uuid() hands out the ids 1, 2, ...
HEARTBEAT_TIMEOUT_MS == 5
Addresses == {"10.0.0.1"}
Ports == {7000, 7001}
PeerName == "node"
PeerIds == 1..MaxUuids

\* Bodies of POST /v1/discovery/register: a complete body for one of two
\* endpoints of one host, and bodies that lack address, port or name.
RegisterBodies ==
  {b \in [address : Addresses \cup {Missing}, port : Ports \cup {Undefined},
          name : {PeerName, Missing}] :
     Cardinality({x \in {"address", "port", "name"} :
                    \/ x = "address" /\ b.address = Missing
                    \/ x = "port" /\ b.port = Undefined
                    \/ x = "name" /\ b.name = Missing}) <= 1}

\* peer_id of a heartbeat or unregister body: an id that uuid() can hand out,
\* or none
PeerIdInputs == PeerIds \cup {Undefined}

PeerReply(op, status, error, peerId, registeredAt) ==
  /\ replied' = [op |-> op, error |-> error, status |-> status, peer_id |-> peerId,
                 registered_at |-> registeredAt]
  /\ UNCHANGED <<customers, licenses, revokedFile, now, nextId, pending, returned, completed>>

\* peers.get(id): the set of peers with the id (empty for undefined)
peersGet(id) == {p \in peers : p.id = id}

\* peers.set(id, peer)
peersSet(id, peer) == {p \in peers : p.id # id} \cup {peer}

\* faulty variant: the lookup compares the address only
existingPeerByAddress(body) == {p \in peers : p.address = body.address}

\* lines 76-78: Array.from(peers.values()).find(...)
existingPeer(body) == {p \in peers : p.address = body.address /\ p.port = body.port}

\* lines 61-112
register(body) ==
  IF body.address = Missing \/ body.port = Undefined \/ body.name = Missing
    THEN /\ PeerReply("register", 400, "INVALID_REQUEST", Undefined, Null)
         /\ UNCHANGED <<peers, uuids>>
    ELSE LET found == existingPeer(body)
             peerId == IF found # {} THEN (CHOOSE p \in found : TRUE).id ELSE uuids + 1
             registeredAt == IF found # {} THEN (CHOOSE p \in found : TRUE).registeredAt
                             ELSE now
             peer == [id |-> peerId, address |-> body.address, port |-> body.port,
                      name |-> body.name, registeredAt |-> registeredAt,
                      capabilities |-> <<"block_sync">>, lastHeartbeat |-> now,
                      version |-> "1.0.0"]
         IN  /\ found = {} => uuids < MaxUuids
             /\ uuids' = IF found # {} THEN uuids ELSE uuids + 1
             /\ peers' = peersSet(peerId, peer)
             /\ PeerReply("register", 200, NoError, peerId, registeredAt)

\* lines 154-183
heartbeat(peerId) ==
  IF peerId = Undefined
    THEN /\ PeerReply("heartbeat", 400, "INVALID_REQUEST", peerId, Null)
         /\ UNCHANGED <<peers, uuids>>
  ELSE IF peersGet(peerId) = {}
    THEN /\ PeerReply("heartbeat", 404, "PEER_NOT_FOUND", peerId, Null)
         /\ UNCHANGED <<peers, uuids>>
  ELSE /\ peers' = {IF p.id = peerId THEN [p EXCEPT !.lastHeartbeat = now] ELSE p : p \in peers}
       /\ PeerReply("heartbeat", 200, NoError, peerId, Null)
       /\ UNCHANGED uuids

\* lines 189-213
unregister(peerId) ==
  IF peerId = Undefined
    THEN /\ PeerReply("unregister", 400, "INVALID_REQUEST", peerId, Null)
         /\ UNCHANGED <<peers, uuids>>
  ELSE IF peersGet(peerId) = {}
    THEN /\ PeerReply("unregister", 404, "PEER_NOT_FOUND", peerId, Null)
         /\ UNCHANGED <<peers, uuids>>
  ELSE /\ peers' = {p \in peers : p.id # peerId}
       /\ PeerReply("unregister", 200, NoError, peerId, Null)
       /\ UNCHANGED uuids

\* faulty variant: a peer is stale when the timeout has just been reached
isStaleAtTimeout(peer, at) == at - peer.lastHeartbeat >= HEARTBEAT_TIMEOUT_MS

\* line 50
isStale(peer, at) == at - peer.lastHeartbeat > HEARTBEAT_TIMEOUT_MS

\* lines 47-55: the callback of setInterval
cleanup ==
  /\ peers' = {p \in peers : ~isStale(p, now)}
  /\ UNCHANGED <<customers, licenses, revokedFile, now, nextId, pending, returned, completed,
                 uuids, replied>>

Register == \E body \in RegisterBodies : register(body)

Heartbeat == \E peerId \in PeerIdInputs : heartbeat(peerId)

Unregister == \E peerId \in PeerIdInputs : unregister(peerId)

\* one minute passes
Minute ==
  /\ now < MaxMinutes
  /\ now' = now + 1
  /\ UNCHANGED <<customers, licenses, revokedFile, nextId, pending, returned, completed,
                 peerVars>>

NextPeers ==
  \/ Register
  \/ Heartbeat
  \/ Unregister
  \/ cleanup
  \/ Minute

SpecPeers == Init /\ [][NextPeers]_vars

\* The timer of setInterval fires again and again and the clock advances.
FairSpecPeers == SpecPeers /\ WF_vars(cleanup) /\ WF_vars(Minute)

\* ------------------------------------------------------------- properties
RowsWithEmail(table, e) == {i \in 1..Len(table) : table[i].email = e}

LicensesOf(table, customerId) ==
  {i \in 1..Len(table) : table[i].customer_id = customerId}

EntriesOf(file, subject) ==
  {i \in 1..Len(file.entries) : file.entries[i].license_id = subject}

IsPayment(r, type) == r.kind = "payment" /\ r.event.eventType = type

\* the step returns a gateway call of the given type in slot 1
Returns(type) == completed' = completed + 1 /\ IsPayment(returned'[1], type)

\* C1: two overlapping checkout_completed calls for one new email leave
\* exactly one customer row for the email, under every interleaving, and the
\* customer id of every checkout, suspended or returned, is the id of that row.
C1_ConcurrentCheckoutsOneCustomer ==
  \A e \in Emails :
    /\ Cardinality(RowsWithEmail(customers, e)) <= 1
    /\ \A s \in Slots :
         /\ (pending[s].handler = "checkout_completed" /\ pending[s].event.email = e)
              => \E i \in 1..Len(customers) :
                   /\ RowsWithEmail(customers, e) = {i}
                   /\ customers[i].id = pending[s].customer_id
         /\ (IsPayment(returned[s], "checkout_completed") /\ returned[s].event.email = e)
              => /\ returned[s].result.success
                 /\ \E i \in 1..Len(customers) :
                      /\ RowsWithEmail(customers, e) = {i}
                      /\ customers[i].id = returned[s].result.customerId

\* Two checkouts for the same new email have overlapped (slot 2 is taken only
\* while slot 1 is suspended) and both have returned.
C1_Witness ==
  /\ completed = 2
  /\ IsPayment(returned[1], "checkout_completed")
  /\ IsPayment(returned[2], "checkout_completed")
  /\ returned[1].event.email = returned[2].event.email
  /\ returned[1].result.customerId = returned[2].result.customerId
  /\ Len(customers) = 1
  /\ Len(licenses) = 2

\* C2: when a subscription_cancelled for a customer has run while a
\* plan-changing subscription_updated for the same customer was suspended at
\* its await (the cancellation started after the update and returned before
\* it), then once both have returned every license row of the customer is
\* stamped revoked, the row minted by the update included.
C2_NoLicenseEscapesRevocation ==
  [][ \A s \in Slots : \A t \in Slots :
        ( /\ pending[s].handler = "subscription_updated"
          /\ pending[s].existingLicense # NoLicense
          /\ pending'[s] = Idle
          /\ InFlight' = {}
          /\ IsPayment(returned[t], "subscription_cancelled")
          /\ returned[t].result.success
          /\ returned[t].result.customerId = pending[s].customer_id
          /\ returned[t].call > pending[s].call )
        => \A i \in LicensesOf(licenses', pending[s].customer_id) :
             licenses'[i].revoked_at # Null
    ]_vars

\* C3: with events processed one after the other, an email has at most one
\* customer row, customer rows are never removed or changed, and every
\* checkout_completed returns the id of the one row that has its email.
C3_EmailMapsToOneCustomer ==
  [][ /\ \A e \in Emails : Cardinality(RowsWithEmail(customers', e)) <= 1
      /\ Len(customers') >= Len(customers)
      /\ \A i \in 1..Len(customers) : customers'[i] = customers[i]
      /\ Returns("checkout_completed") =>
           /\ returned'[1].result.success
           /\ \E i \in 1..Len(customers') :
                /\ RowsWithEmail(customers', returned'[1].event.email) = {i}
                /\ customers'[i].id = returned'[1].result.customerId
    ]_vars

\* A Paddle checkout has returned the customer that a Stripe checkout created.
C3_Witness ==
  /\ IsPayment(returned[1], "checkout_completed")
  /\ returned[1].event.provider = "paddle"
  /\ \E i \in 1..Len(customers) :
       /\ customers[i].email = returned[1].event.email
       /\ customers[i].stripe_customer_id # "NULL"
       /\ customers[i].id = returned[1].result.customerId
       /\ Cardinality(LicensesOf(licenses, customers[i].id)) >= 2

\* C4: no subject has two entries in the revocation list, and after a
\* successful subscription_cancelled the customer is revoked with exactly one
\* entry, however many cancellations came before.
C4_CancelledIsRevokedOnce ==
  /\ \A i \in 1..Len(revokedFile.entries) :
       EntriesOf(revokedFile, revokedFile.entries[i].license_id) = {i}
  /\ \A s \in Slots :
       (IsPayment(returned[s], "subscription_cancelled") /\ returned[s].result.success)
         => /\ isRevoked(returned[s].result.customerId)
            /\ Cardinality(EntriesOf(revokedFile, returned[s].result.customerId)) = 1

\* A cancellation has returned for a customer that the other provider's
\* cancellation had revoked before.
C4_Witness ==
  /\ IsPayment(returned[1], "subscription_cancelled")
  /\ returned[1].result.success
  /\ \E i \in EntriesOf(revokedFile, returned[1].result.customerId) :
       revokedFile.entries[i].reason[2] # returned[1].event.provider

\* C5: a successful subscription_cancelled deletes no license row, stamps
\* revoked_at on every row of the customer that had none (and changes
\* nothing else in those rows), and leaves the customer without an active
\* license.
C5_CancelStampsEveryActiveRow ==
  [][ (Returns("subscription_cancelled") /\ returned'[1].result.success) =>
        LET c == returned'[1].result.customerId
        IN  /\ Len(licenses') = Len(licenses)
            /\ \A i \in 1..Len(licenses) :
                 /\ licenses'[i].id = licenses[i].id
                 /\ (licenses[i].customer_id = c /\ licenses[i].revoked_at = Null)
                      => /\ licenses'[i].revoked_at # Null
                         /\ [licenses'[i] EXCEPT !.revoked_at = Null] = licenses[i]
            /\ findLicenseByCustomerIn(licenses', c) = {}
    ]_vars

\* A cancellation has returned for a customer with two license rows, both of
\* them stamped at the time of the call.
C5_Witness ==
  /\ IsPayment(returned[1], "subscription_cancelled")
  /\ returned[1].result.success
  /\ Cardinality({i \in LicensesOf(licenses, returned[1].result.customerId) :
                    licenses[i].revoked_at = now}) >= 2

\* C6: a subscription_cancelled given the same event as the successful
\* cancellation that returned just before it leaves the revocation list and
\* every license row as they were, and returns the same result.
C6_CancelReplayChangesNothing ==
  [][ ( /\ IsPayment(returned[1], "subscription_cancelled")
        /\ returned[1].result.success
        /\ Returns("subscription_cancelled")
        /\ returned'[1].event = returned[1].event )
      => /\ revokedFile' = revokedFile
         /\ licenses' = licenses
         /\ customers' = customers
         /\ returned'[1].result = returned[1].result
    ]_vars

\* A cancellation has been replayed at a later tick than the one that
\* revoked the customer and stamped its license.
C6_Witness ==
  /\ IsPayment(returned[1], "subscription_cancelled")
  /\ returned[1].result.success
  /\ returned[1].repeats
  /\ \E i \in LicensesOf(licenses, returned[1].result.customerId) :
       licenses[i].revoked_at # Null /\ licenses[i].revoked_at < now
  /\ \E i \in EntriesOf(revokedFile, returned[1].result.customerId) :
       revokedFile.entries[i].revoked_at < now

\* the active license of the data model: the non-revoked row of the customer
\* that was inserted last
MostRecentActive(table, customerId) ==
  LET act == {i \in LicensesOf(table, customerId) : table[i].revoked_at = Null}
  IN  IF act = {} THEN NoLicense
      ELSE table[CHOOSE i \in act : \A j \in act : j <= i]

\* C7: a subscription_updated to plan Q for a customer whose active license
\* has another plan returns success with a new license id, and afterwards
\* findLicenseByCustomer returns the new row, with plan Q, also when the
\* previous row was created in the same clock second.
C7_UpdatedPlanBecomesActive ==
  [][ ( /\ pending[1].handler = "subscription_updated"
        /\ pending'[1] = Idle
        /\ MostRecentActive(licenses, pending[1].customer_id) # NoLicense
        /\ MostRecentActive(licenses, pending[1].customer_id).plan # pending[1].event.plan )
      => /\ returned'[1].result.success
         /\ returned'[1].result.licenseId # Undefined
         /\ \A l \in findLicenseByCustomerIn(licenses', pending[1].customer_id) :
              /\ l.id = returned'[1].result.licenseId
              /\ l.plan = pending[1].event.plan
         /\ findLicenseByCustomerIn(licenses', pending[1].customer_id) # {}
    ]_vars

\* the step starts a subscription_updated call in slot 1: it returns at once
\* or suspends at the await
StartsUpdate ==
  /\ pending[1] = Idle
  /\ \/ Returns("subscription_updated")
     \/ pending'[1].handler = "subscription_updated"

StartedEvent == IF pending'[1] = Idle THEN returned'[1].event ELSE pending'[1].event

\* C8: a subscription_updated to plan P for a customer whose active license
\* has plan P returns success with the customer id and no license id and
\* leaves the customers, the licenses and the revocation list unchanged.
C8_SamePlanUpdateChangesNothing ==
  [][ StartsUpdate =>
        \A i \in RowsWithEmail(customers, StartedEvent.email) :
          MostRecentActive(licenses, customers[i].id).plan = StartedEvent.plan
            => /\ Returns("subscription_updated")
               /\ returned'[1].result = PaymentResult(TRUE, customers[i].id, Undefined, NoError)
               /\ customers' = customers
               /\ licenses' = licenses
               /\ revokedFile' = revokedFile
    ]_vars

\* the step inserts a license row
InsertsLicense == Len(licenses') = Len(licenses) + 1

InsertedLicense == licenses'[Len(licenses')]

C10_PaymentFailedChangesNothing ==
  [][ Returns("payment_failed") =>
        /\ returned'[1].result.success
        /\ customers' = customers
        /\ licenses' = licenses
        /\ revokedFile' = revokedFile
        /\ \A id \in 1..nextId : isRevokedIn(revokedFile', id) = isRevoked(id)
    ]_vars

\* payment_failed has returned for a customer that holds an active license
\* and is not revoked.
C10_Witness ==
  /\ IsPayment(returned[1], "payment_failed")
  /\ returned[1].result.success
  /\ \E i \in RowsWithEmail(customers, returned[1].event.email) :
       /\ findLicenseByCustomer(customers[i].id) # {}
       /\ ~isRevoked(customers[i].id)

\* C11: subscription_updated and subscription_cancelled for an email without
\* a customer row return at once with success false and the error "Customer
\* not found", and leave the customers, the licenses and the revocation list
\* as they were.
C11_UnknownEmailIsRejected ==
  [][ \A ev \in Events :
        ( /\ ev.eventType \in {"subscription_updated", "subscription_cancelled"}
          /\ RowsWithEmail(customers, ev.email) = {}
          /\ pending[1] = Idle
          /\ \/ (completed' = completed + 1 /\ returned'[1].kind = "payment"
                    /\ returned'[1].event = ev)
             \/ (pending'[1] # Idle /\ pending'[1].event = ev) )
        => /\ pending'[1] = Idle
           /\ returned'[1].result = PaymentResult(FALSE, Undefined, Undefined, "Customer not found")
           /\ customers' = customers
           /\ licenses' = licenses
           /\ revokedFile' = revokedFile
    ]_vars

\* A cancellation for an email without a customer has been rejected while
\* another email has a customer with an active license.
C11_Witness ==
  /\ IsPayment(returned[1], "subscription_cancelled")
  /\ ~returned[1].result.success
  /\ returned[1].result.error = "Customer not found"
  /\ RowsWithEmail(customers, returned[1].event.email) = {}
  /\ Len(customers) = 1
  /\ Len(licenses) = 1
  /\ revokedFile = NoFile

\* the step ends the call of slot 1
EndsCall == completed' = completed + 1

FaultMessages ==
  {DbNotInitialized, InsertFailed, SignFailed, RegistryWriteFailed, UpdateFailed}

\* C12: whatever fault the database, the signer or the registry file raises,
\* every call of processPaymentEvent ends with a result value (its promise is
\* never rejected); success is reported without an error and only when the
\* handler went through (the license row it names exists, the cancelled
\* customer is revoked and has no active row), and a call that a fault has
\* cut short reports success false with the message of the fault.
C12_FaultsBecomeFailureResults ==
  [][ EndsCall =>
        LET r == returned'[1]
        IN  /\ r.kind = "payment"
            /\ r.result.success \in BOOLEAN
            /\ r.result.success <=> r.result.error = NoError
            /\ (r.result.success /\ r.result.licenseId # Undefined) =>
                  \E i \in LicensesOf(licenses', r.result.customerId) :
                    licenses'[i].id = r.result.licenseId
            /\ (r.result.success /\ r.event.eventType = "subscription_cancelled") =>
                  /\ isRevokedIn(revokedFile', r.result.customerId)
                  /\ ActiveRows(licenses', r.result.customerId) = {}
            /\ (pending[1] # Idle /\ returned'[1].result.licenseId = Undefined) =>
                  /\ ~r.result.success
                  /\ r.result.error \in {SignFailed, InsertFailed}
            /\ (pending[1] = Idle /\ r.event.eventType = "subscription_cancelled"
                  /\ \E i \in RowsWithEmail(customers, r.event.email) :
                        ~isRevokedIn(revokedFile', customers[i].id)) =>
                  /\ ~r.result.success
                  /\ r.result.error \in {DbNotInitialized, RegistryWriteFailed}
    ]_vars

\* Every kind of fault has been met: a call has failed on the signer, the
\* next on the registry file, the next on the database.
C12_Witness ==
  /\ completed = 3
  /\ returned[1].kind = "payment"
  /\ returned[1].result.error = DbNotInitialized
  /\ revokedFile = CorruptFile
  /\ Len(customers) = 1
  /\ Len(licenses) = 0

\* C13: an event of a type other than the four of PaymentEventType ends at
\* once with a result value, success false and a message that names the type,
\* and leaves the customers, the licenses and the revocation list unchanged.
C13_UnknownTypeIsRejected ==
  [][ \A ev \in UnknownEvents :
        ( /\ pending[1] = Idle
          /\ \/ (EndsCall /\ returned'[1].event = ev)
             \/ (pending'[1] # Idle /\ pending'[1].event = ev) )
        => /\ pending'[1] = Idle
           /\ returned'[1].kind = "payment"
           /\ ~returned'[1].result.success
           /\ returned'[1].result.error = UnknownEventTypeMessage(ev.eventType)
           /\ \A other \in UnknownEventTypes \ {ev.eventType} :
                returned'[1].result.error # UnknownEventTypeMessage(other)
           /\ customers' = customers
           /\ licenses' = licenses
           /\ revokedFile' = revokedFile
    ]_vars

\* An event of unknown type has been rejected for a customer that holds an
\* active license and is not revoked.
C13_Witness ==
  /\ returned[1].kind = "payment"
  /\ returned[1].event \in UnknownEvents
  /\ ~returned[1].result.success
  /\ \E i \in RowsWithEmail(customers, returned[1].event.email) :
       /\ findLicenseByCustomer(customers[i].id) # {}
       /\ ~isRevoked(customers[i].id)

\* the step ends an operation of the registry
EndsRegistryOp == EndsCall /\ returned'[1].kind = "registry"

RevokedSubjects(file) == {subject \in Subjects : isRevokedIn(file, subject)}

\* C14: when the process is killed inside a write of the registry file (in
\* addRevocation or removeRevocation) and started again, the registry read
\* back holds the entries from before the write or those the write was
\* putting down, and every subject revoked before and not being removed is
\* still revoked.
C14_CrashLeavesOldOrNewEntries ==
  [][ (EndsRegistryOp /\ returned'[1].crashed) =>
        LET before == listRevocations(revokedFile)
            after == listRevocations(revokedFile')
            subject == returned'[1].subject
        IN  /\ \/ after = before
               \/ /\ returned'[1].op = "add"
                  /\ Len(after) = Len(before) + 1
                  /\ SubSeq(after, 1, Len(before)) = before
                  /\ after[Len(after)].license_id = subject
               \/ /\ returned'[1].op = "remove"
                  /\ after = SelectSeq(before, LAMBDA e : e.license_id # subject)
            /\ \A other \in RevokedSubjects(revokedFile) :
                 (returned'[1].op = "remove" /\ other = subject)
                   \/ isRevokedIn(revokedFile', other)
    ]_vars

\* C17: after every addition and removal no two entries of the registry
\* have the same subject, getRevocationCount is the number of revoked
\* subjects, and addRevocation for a subject that is revoked leaves the file
\* as it is.
C17_OneEntryPerSubject ==
  [][ EndsRegistryOp =>
        /\ \A i \in 1..Len(listRevocations(revokedFile')) :
             EntriesOf(revokedFile', listRevocations(revokedFile')[i].license_id) = {i}
        /\ getRevocationCount(revokedFile') = Cardinality(RevokedSubjects(revokedFile'))
        /\ (returned'[1].op = "add" /\ ~returned'[1].crashed
              /\ isRevoked(returned'[1].subject)) => revokedFile' = revokedFile
    ]_vars

\* addRevocation has returned for a subject that was revoked at an earlier
\* tick, next to another revoked subject.
C17_Witness ==
  /\ returned[1].kind = "registry"
  /\ returned[1].op = "add"
  /\ ~returned[1].crashed
  /\ \E i \in EntriesOf(revokedFile, returned[1].subject) :
       revokedFile.entries[i].revoked_at < now
  /\ getRevocationCount(revokedFile) = 2

\* C18: removeRevocation returns true exactly when the subject was revoked;
\* afterwards the subject is not revoked and the entry of every other
\* subject is as before; for a subject that is not revoked (a second removal
\* included) it returns false and leaves the file as it is.
C18_RemoveReportsChange ==
  [][ (EndsRegistryOp /\ returned'[1].op = "remove" /\ ~returned'[1].crashed) =>
        LET subject == returned'[1].subject
        IN  /\ returned'[1].result = isRevoked(subject)
            /\ ~isRevokedIn(revokedFile', subject)
            /\ \A other \in Subjects \ {subject} :
                 getRevocationInfo(revokedFile', other) = getRevocationInfo(revokedFile, other)
            /\ ~isRevoked(subject) =>
                 (returned'[1].result = FALSE /\ revokedFile' = revokedFile)
    ]_vars

\* A removal has returned true, the subject is no longer revoked and the
\* other subject still is.
C18_Witness ==
  /\ returned[1].kind = "registry"
  /\ returned[1].op = "remove"
  /\ ~returned[1].crashed
  /\ returned[1].result = TRUE
  /\ ~isRevoked(returned[1].subject)
  /\ \E other \in Subjects \ {returned[1].subject} : isRevoked(other)

\* C15: whenever a payment event has returned and none is in progress, a
\* customer id is in the revocation list if and only if the customer has at
\* least one license row and every license row of the customer is stamped
\* revoked.
C15_RegistryMatchesLicenseRows ==
  (InFlight = {} /\ completed > 0 /\ returned[1].kind = "payment") =>
    \A i \in 1..Len(customers) :
      isRevoked(customers[i].id)
        <=> /\ LicensesOf(licenses, customers[i].id) # {}
            /\ ActiveRows(licenses, customers[i].id) = {}

\* C16: a call that is given the provider and the external transaction id of
\* the call that returned before it with a newly minted license does not
\* mint a second license row (the first row is still in the table).
C16_OneLicensePerTransaction ==
  [][ ( /\ pending[1] # Idle
        /\ pending[1].handler \in {"checkout_completed", "subscription_updated"}
        /\ returned[1].kind = "payment"
        /\ returned[1].result.success
        /\ returned[1].result.licenseId # Undefined
        /\ returned[1].event.provider = pending[1].event.provider
        /\ returned[1].event.externalTransactionId = pending[1].event.externalTransactionId
        /\ returned[1].event.eventType = pending[1].event.eventType
        /\ \E i \in 1..Len(licenses) : licenses[i].id = returned[1].result.licenseId )
      => ~InsertsLicense
    ]_vars

\* C19: across gateway events and operator issuances no customer row and no
\* license row is deleted, customer rows do not change, the id, customer_id,
\* plan, issued_at and expires_at of a license row do not change, and a
\* revoked_at that is set keeps its value.
C19_RowsAreAppendOnly ==
  [][ /\ Len(customers') >= Len(customers)
      /\ Len(licenses') >= Len(licenses)
      /\ \A i \in 1..Len(customers) : customers'[i] = customers[i]
      /\ \A i \in 1..Len(licenses) :
           /\ [licenses'[i] EXCEPT !.revoked_at = Null] = [licenses[i] EXCEPT !.revoked_at = Null]
           /\ licenses[i].revoked_at # Null => licenses'[i].revoked_at = licenses[i].revoked_at
    ]_vars

\* A cancellation has been replayed at a later tick for the customer and the
\* license that an operator issuance created; the license keeps the stamp of
\* the first cancellation.
C19_Witness ==
  /\ IsPayment(returned[1], "subscription_cancelled")
  /\ returned[1].result.success
  /\ returned[1].repeats
  /\ returned[1].result.customerId \in OperatorCustomerIds
  /\ \E i \in LicensesOf(licenses, returned[1].result.customerId) :
       licenses[i].revoked_at # Null /\ licenses[i].revoked_at < now

\* the step answers a verification request
EndsVerify == EndsCall /\ returned'[1].kind = "verify"

\* C20: the answer to a submitted credential is INVALID_FORMAT when it does
\* not decode to JSON; else INVALID_SIGNATURE when it is not a credential the
\* server has signed, whether or not its customer_id is revoked; else REVOKED
\* with the revoked_at and the reason of the registry entry exactly when the
\* customer_id is a subject of the registry; else valid true with revoked
\* false.
C20_VerifyDecision ==
  [][ (EndsVerify /\ returned'[1].credential # MissingLicense) =>
        LET credential == returned'[1].credential
            response == returned'[1].response
        IN  IF credential = NotJson
              THEN response.valid = FALSE /\ response.reason = "INVALID_FORMAT"
            ELSE IF ~credential.object \/ credential.license \notin GenuineLicenses
              THEN response.valid = FALSE /\ response.reason = "INVALID_SIGNATURE"
            ELSE LET entries == EntriesOf(revokedFile, credential.license.customer_id)
                 IN  IF revokedFile.kind = "json" /\ entries # {}
                       THEN /\ response.valid = FALSE
                            /\ response.reason = "REVOKED"
                            /\ response.revoked = TRUE
                            /\ \E i \in entries :
                                 /\ response.revoked_at = revokedFile.entries[i].revoked_at
                                 /\ response.revocation_reason = revokedFile.entries[i].reason
                       ELSE /\ response.valid = TRUE
                            /\ response.revoked = FALSE
    ]_vars

\* A forged credential for a revoked customer has been answered
\* INVALID_SIGNATURE.
C20_Witness ==
  /\ returned[1].kind = "verify"
  /\ returned[1].credential \notin {MissingLicense, NotJson, JsonNull}
  /\ returned[1].credential.license \in ForgedLicenses
  /\ isRevoked(returned[1].credential.license.customer_id)
  /\ returned[1].response.reason = "INVALID_SIGNATURE"

\* the credential of the answered request is one the server has signed
AnswersGenuine ==
  /\ EndsVerify
  /\ returned'[1].credential \notin {MissingLicense, NotJson, JsonNull}
  /\ returned'[1].credential.license \in GenuineLicenses

\* C21: the answer to a credential the server has signed is valid exactly
\* when the customer_id of the credential is not in the registry, whatever
\* customer and license rows the store holds, and a valid answer consists of
\* valid, revoked, server_time and policy_flags and nothing else (no plan, no
\* expiry).
C21_SuccessResponseIsMinimal ==
  [][ AnswersGenuine =>
        LET response == returned'[1].response
            subject == returned'[1].credential.license.customer_id
        IN  /\ response.valid <=> ~isRevoked(subject)
            /\ response.valid =>
                 /\ DOMAIN response = {"valid", "revoked", "server_time", "policy_flags"}
                 /\ response = [valid |-> TRUE, revoked |-> FALSE, server_time |-> now,
                                policy_flags |-> PolicyFlags]
    ]_vars

\* A credential with plan PRO has been answered valid while the store holds
\* an active FREE license for its customer.
C21_Witness ==
  /\ returned[1].kind = "verify"
  /\ returned[1].status = 200
  /\ returned[1].credential # NotJson
  /\ returned[1].response.valid
  /\ returned[1].credential.license.plan = "PRO"
  /\ \E l \in findLicenseByCustomer(returned[1].credential.license.customer_id) :
       l.plan = "FREE"

\* C22: verifyLicense of what signLicense returns for a payload is true; it
\* is false, as a value, when a payload field was changed, a field was added,
\* the signature was made with another key, is truncated or is not base64, and
\* when the input is not an object.
C22_VerifyAcceptsOnlyWhatWasSigned ==
  returned[1].kind = "verifyLicense" =>
    /\ returned[1].result \in BOOLEAN
    /\ returned[1].result <=> returned[1].tampering = "none"

\* C23: canonicalize of an object does not depend on the order in which its
\* properties were inserted: it is the canonical form of the same key/value
\* pairs in the order of the payload literal, it holds every pair once, and
\* its keys are in lexicographic order.
C23_CanonicalFormIgnoresInsertionOrder ==
  returned[1].kind = "canonicalize" =>
    LET result == returned[1].result
        object == returned[1].object
    IN  /\ result = returned[1].reference
        /\ Len(result) = Len(object)
        /\ \A i \in 1..Len(object) : \E j \in 1..Len(result) : result[j] = object[i]
        /\ \A i, j \in 1..Len(result) :
             i < j => \E m, n \in 1..Len(KeyOrder) :
                        /\ KeyOrder[m] = result[i][1]
                        /\ KeyOrder[n] = result[j][1]
                        /\ m < n

\* An object whose properties were inserted in reverse lexicographic order
\* has been canonicalized.
C23_Witness ==
  /\ returned[1].kind = "canonicalize"
  /\ ObjectKeys(returned[1].object) =
       <<"plan", "offline_ttl_days", "issued_at", "expires_at", "customer_id">>
  /\ ObjectKeys(returned[1].result) =
       <<"customer_id", "expires_at", "issued_at", "offline_ttl_days", "plan">>

\* C24: isWithinOfflineTTL is true exactly when the clock is before
\* lastVerified plus offline_ttl_days days: true one millisecond before the
\* deadline, false at the deadline and one millisecond after it.
C24_OfflineTtlDeadline ==
  returned[1].kind = "isWithinOfflineTTL" =>
    LET deadline == returned[1].lastVerified + returned[1].offline_ttl_days * DayMs
    IN  /\ returned[1].result <=> now < deadline
        /\ now = deadline - 1 => returned[1].result
        /\ now = deadline => ~returned[1].result
        /\ now = deadline + 1 => ~returned[1].result

\* The function has been applied at the deadline of a credential with a TTL
\* of at least one day.
C24_Witness ==
  /\ returned[1].kind = "isWithinOfflineTTL"
  /\ returned[1].offline_ttl_days >= 1
  /\ now = returned[1].lastVerified + returned[1].offline_ttl_days * DayMs
  /\ ~returned[1].result

\* C29: isLicenseExpired is true exactly when expires_at is before the clock;
\* a credential whose expires_at is the current instant is not expired.
C29_ExpiredStrictlyAfterExpiry ==
  returned[1].kind = "isLicenseExpired" =>
    /\ returned[1].result <=> returned[1].expires_at.iso < now
    /\ returned[1].expires_at.iso = now => ~returned[1].result

\* The function has been applied to a credential at its expiry instant.
C29_Witness ==
  /\ returned[1].kind = "isLicenseExpired"
  /\ returned[1].expires_at.iso = now
  /\ now > 0
  /\ ~returned[1].result

\* C25: a checkout_completed that returns success has inserted exactly one
\* license row: for the customer row of the event's email, with the event's
\* plan, with expires_at equal to expiresAt of the event when it is given and
\* to issued_at plus 365 days otherwise; the payload that was signed has the
\* same expiry and offline_ttl_days = 30; the result's customerId and
\* licenseId are the ids of that customer row and of the new license row.
C25_CheckoutInsertsOneLicense ==
  [][(/\ pending[1].handler = "checkout_completed"
      /\ returned'[1] # returned[1]
      /\ returned'[1].kind = "payment"
      /\ returned'[1].result.success)
     => LET ev == returned'[1].event
            res == returned'[1].result
            payload == pending[1].payload
            row == licenses'[Len(licenses')]
        IN  /\ licenses' = Append(licenses, row)
            /\ customers' = customers
            /\ row.id = res.licenseId
            /\ \A l \in RowsOf(licenses) : l.id # row.id
            /\ row.customer_id = res.customerId
            /\ \E c \in RowsOf(customers) : c.id = res.customerId /\ c.email = ev.email
            /\ row.plan = ev.plan
            /\ row.revoked_at = Null
            /\ row.expires_at = IF ev.expiresAt # Null THEN ev.expiresAt
                                ELSE row.issued_at + YearTicks
            /\ payload.plan = ev.plan
            /\ payload.customer_id = res.customerId
            /\ payload.issued_at = row.issued_at
            /\ payload.expires_at = row.expires_at
            /\ payload.offline_ttl_days = 30]_vars

\* A checkout with expiresAt has returned success for a customer that
\* existed before, and the row it inserted expires at that instant.
C25_Witness ==
  /\ returned[1].kind = "payment"
  /\ returned[1].event.eventType = "checkout_completed"
  /\ returned[1].event.expiresAt # Null
  /\ returned[1].result.success
  /\ Len(licenses) >= 2
  /\ licenses[Len(licenses)].id = returned[1].result.licenseId
  /\ licenses[Len(licenses)].expires_at = returned[1].event.expiresAt
  /\ licenses[1].customer_id = returned[1].result.customerId

\* C26: after a checkout_completed of provider X has returned success, the
\* customer's active license row that findLicenseByCustomer returns records
\* payment_provider = X and the event's externalTransactionId.
C26_LicenseRecordsProvider ==
  (/\ returned[1].kind = "payment"
   /\ returned[1].event.eventType = "checkout_completed"
   /\ returned[1].result.success)
  => /\ findLicenseByCustomer(returned[1].result.customerId) # {}
     /\ \A l \in findLicenseByCustomer(returned[1].result.customerId) :
          /\ "payment_provider" \in DOMAIN l
          /\ l.payment_provider = returned[1].event.provider
          /\ "external_transaction_id" \in DOMAIN l
          /\ l.external_transaction_id = returned[1].event.externalTransactionId

\* C27: checkout_completed(PRO), subscription_updated(PRO),
\* subscription_updated(FREE), subscription_cancelled for one email, in that
\* order: the first call returns success with the id C of the customer row
\* and the id L1 of the license row; the second success with customerId C and
\* no licenseId; the third success with the id L2 of a second license row,
\* different from L1; after the fourth isRevoked(C) is true.
C27_SubscriptionLifecycle ==
  returned[1].kind = "payment" =>
    LET res == returned[1].result
        C == customers[1].id
    IN  /\ Len(customers) = 1
        /\ returned[1].event.eventType = Scenario[returned[1].order].eventType
        /\ returned[1].event.plan = Scenario[returned[1].order].plan
        /\ res.success
        /\ returned[1].order = 1 =>
             /\ res.customerId = C
             /\ res.licenseId # Undefined
             /\ res.licenseId = licenses[1].id
        /\ returned[1].order = 2 =>
             /\ res.customerId = C
             /\ res.licenseId = Undefined
             /\ Len(licenses) = 1
        /\ returned[1].order = 3 =>
             /\ res.licenseId # Undefined
             /\ res.licenseId # licenses[1].id
             /\ res.licenseId = licenses[2].id
        /\ returned[1].order = 4 => isRevoked(C)

\* The fourth call of the sequence has returned.
C27_Witness ==
  /\ returned[1].kind = "payment"
  /\ returned[1].order = 4
  /\ returned[1].event.eventType = "subscription_cancelled"
  /\ Len(licenses) = 2
  /\ isRevoked(customers[1].id)

\* C28: POST /v1/license/issue answers 401 to a request whose X-API-Key is
\* missing or does not both start with "vibe_sk_" and have more than 20
\* characters, whatever its body; it answers 400 to a request with an accepted
\* key whose JSON body lacks email, plan or duration_days; a request answered
\* 401 or 400 creates no customer row and no license row.
C28_IssueRejectsBadKeyThenBadBody ==
  [][(returned'[1] # returned[1] /\ returned'[1].kind = "issue")
     => LET req == returned'[1].request
            status == returned'[1].status
            badKey == \/ req.apiKey = NoKey
                      \/ req.apiKey.prefix # "vibe_sk_"
                      \/ req.apiKey.length <= 20
            badBody == req.email = Missing \/ req.plan = Missing \/ req.duration_days = 0
        IN  /\ badKey => status = 401
            /\ (~badKey /\ req.json /\ badBody) => status = 400
            /\ status = 401 => badKey
            /\ status = 400 => ~badKey /\ badBody
            /\ status \in {400, 401} =>
                 /\ pending[1] = Idle
                 /\ customers' = customers
                 /\ licenses' = licenses
                 /\ nextId' = nextId]_vars

\* A request without X-API-Key and without email has been answered 401 while
\* the store holds rows.
C28_Witness ==
  /\ returned[1].kind = "issue"
  /\ returned[1].request.apiKey = NoKey
  /\ returned[1].request.email = Missing
  /\ returned[1].status = 401
  /\ Len(customers) >= 1
  /\ Len(licenses) >= 1

\* C30: a call of processPaymentEvent that returns success false leaves the
\* customers table, the licenses table and the revocation registry as they
\* were before the call: its returning step changes none of them, after a
\* failed checkout every customer row has a license row, and after a failed
\* cancellation no customer in the registry has an active license row.
C30_FailedCallChangesNothing ==
  [][(/\ EndsCall
      /\ returned'[1].kind = "payment"
      /\ ~returned'[1].result.success)
     => /\ customers' = customers
        /\ licenses' = licenses
        /\ revokedFile' = revokedFile
        /\ returned'[1].event.eventType = "checkout_completed" =>
             \A c \in RowsOf(customers') : \E l \in RowsOf(licenses') : l.customer_id = c.id
        /\ returned'[1].event.eventType = "subscription_cancelled" =>
             \A c \in RowsOf(customers') :
               isRevokedIn(revokedFile', c.id) => ActiveRows(licenses', c.id) = {}]_vars

\* C31: no step of the gateway (checkout_completed, subscription_updated,
\* subscription_cancelled, payment_failed, and their resumptions) takes a
\* subject out of the revocation registry, and a credential the server has
\* signed for a customer in the registry is answered REVOKED, also when the
\* customer has been given a license row after the revocation.
C31_RevocationOutlivesPaymentEvents ==
  [][/\ \A subject \in RevokedSubjects(revokedFile) : isRevokedIn(revokedFile', subject)
     /\ (AnswersGenuine /\ isRevoked(returned'[1].credential.license.customer_id)) =>
          /\ returned'[1].response.valid = FALSE
          /\ returned'[1].response.reason = "REVOKED"
          /\ returned'[1].response.revoked = TRUE]_vars

\* A credential of a revoked customer has been answered REVOKED while the
\* customer holds an active license row from a checkout after the
\* cancellation.
C31_Witness ==
  /\ returned[1].kind = "verify"
  /\ returned[1].credential \notin {MissingLicense, NotJson, JsonNull}
  /\ returned[1].credential.license \in GenuineLicenses
  /\ returned[1].response.valid = FALSE
  /\ returned[1].response.reason = "REVOKED"
  /\ isRevoked(returned[1].credential.license.customer_id)
  /\ ActiveRows(licenses, returned[1].credential.license.customer_id) # {}
  /\ \E l \in RowsOf(licenses) :
       /\ l.customer_id = returned[1].credential.license.customer_id
       /\ l.revoked_at # Null

\* C32: two overlapping subscription_updated calls for one customer and one
\* new plan Q, other than the plan P of the active license, insert at most one
\* license row.  When a call that has read the license with plan P is still
\* suspended at its await and a call started after it has returned the id of
\* the row it inserted, the suspended call inserts nothing when it resumes.
C32_ConcurrentUpdatesMintOnce ==
  [][\A s, t \in Slots :
       (/\ s # t
        /\ pending[t].handler = "subscription_updated"
        /\ pending'[t] = Idle
        /\ pending[t].existingLicense # NoLicense
        /\ IsPayment(returned[s], "subscription_updated")
        /\ returned[s].call > pending[t].call
        /\ returned[s].event.plan = pending[t].event.plan
        /\ returned[s].result.customerId = pending[t].customer_id
        /\ returned[s].result.licenseId # Undefined)
       => licenses' = licenses]_vars

\* C33: the answer of POST /v1/license/verify to a credential the server has
\* signed, whose customer_id is not in the registry, is valid true whatever
\* its expires_at, also when expires_at is before the clock; two credentials
\* that differ in expires_at only get the same answer.
C33_VerifyIgnoresExpiry ==
  [][AnswersGenuine =>
       LET license == returned'[1].credential.license
           response == returned'[1].response
       IN  /\ ~isRevoked(license.customer_id) =>
                /\ returned'[1].status = 200
                /\ response.valid = TRUE
                /\ response.revoked = FALSE
           /\ \A other \in GenuineLicenses :
                other.customer_id = license.customer_id =>
                  verifyResponse(revokedFile, [kind |-> "json", object |-> TRUE, license |-> other],
                                 now) = response]_vars

\* A credential whose expires_at is before the clock has been answered valid.
C33_Witness ==
  /\ returned[1].kind = "verify"
  /\ returned[1].credential \notin {MissingLicense, NotJson, JsonNull}
  /\ returned[1].credential.license \in GenuineLicenses
  /\ returned[1].credential.license.expires_at < returned[1].response.server_time
  /\ returned[1].response.valid = TRUE

\* C34: a subject that is in the registry keeps the entry it has, with the
\* revoked_at and the reason of the add that created it, when it is added
\* again; the entry a gateway cancellation creates carries the reason
\* "Subscription cancelled via <provider>" of that cancelling event.
C34_RegistryKeepsFirstRevocation ==
  [][/\ \A subject \in Subjects :
          isRevoked(subject) =>
            /\ getRevocationInfo(revokedFile', subject) = getRevocationInfo(revokedFile, subject)
            /\ Cardinality({i \in 1..Len(listRevocations(revokedFile')) :
                              listRevocations(revokedFile')[i].license_id = subject}) = 1
     /\ (/\ EndsCall
         /\ IsPayment(returned'[1], "subscription_cancelled")
         /\ returned'[1].result.success
         /\ ~isRevoked(returned'[1].result.customerId)) =>
          getRevocationInfo(revokedFile', returned'[1].result.customerId) =
            [license_id |-> returned'[1].result.customerId, revoked_at |-> now,
             reason |-> <<"Subscription cancelled via", returned'[1].event.provider>>]]_vars

\* A cancellation by one provider has returned for a customer whose entry was
\* written earlier by a cancellation of the other provider.
C34_Witness ==
  /\ IsPayment(returned[1], "subscription_cancelled")
  /\ returned[1].result.success
  /\ isRevoked(returned[1].result.customerId)
  /\ getRevocationInfo(revokedFile, returned[1].result.customerId).reason
       # <<"Subscription cancelled via", returned[1].event.provider>>
  /\ getRevocationInfo(revokedFile, returned[1].result.customerId).revoked_at < now

\* C35: a subscription_cancelled call for one customer leaves the customers
\* table, revoked_at of every license row of any other customer and the
\* registry entry of every other subject as they were.
C35_CancellationTouchesOneCustomer ==
  [][(EndsCall /\ IsPayment(returned'[1], "subscription_cancelled")) =>
       /\ customers' = customers
       /\ Len(licenses') = Len(licenses)
       /\ \A i \in 1..Len(licenses) :
            licenses[i].customer_id # returned'[1].result.customerId =>
              licenses'[i] = licenses[i]
       /\ \A subject \in Subjects :
            subject # returned'[1].result.customerId =>
              /\ isRevokedIn(revokedFile', subject) = isRevoked(subject)
              /\ getRevocationInfo(revokedFile', subject) = getRevocationInfo(revokedFile, subject)]_vars

\* A cancellation has stamped the rows of one customer while another customer
\* has an active row and no registry entry.
C35_Witness ==
  /\ IsPayment(returned[1], "subscription_cancelled")
  /\ returned[1].result.success
  /\ \E i \in 1..Len(licenses) :
       /\ licenses[i].customer_id = returned[1].result.customerId
       /\ licenses[i].revoked_at = now
  /\ \E i \in 1..Len(licenses) :
       /\ licenses[i].customer_id # returned[1].result.customerId
       /\ licenses[i].revoked_at = Null
       /\ ~isRevoked(licenses[i].customer_id)

\* C36: while the registry file exists and cannot be parsed, isRevoked is
\* false for every subject and the count is 0; an add that completes on such
\* a file leaves a parsable file whose store holds the added subject only.
C36_UnparsableFileIsEmptyRegistry ==
  [][/\ revokedFile.kind = "corrupt" =>
          /\ \A subject \in Subjects : ~isRevoked(subject)
          /\ getRevocationCount(revokedFile) = 0
     /\ (/\ revokedFile.kind = "corrupt"
         /\ EndsRegistryOp
         /\ returned'[1].op = "add"
         /\ ~returned'[1].crashed) =>
          /\ revokedFile'.kind = "json"
          /\ getRevocationCount(revokedFile') = 1
          /\ getRevocationInfo(revokedFile', returned'[1].subject).license_id = returned'[1].subject
          /\ getRevocationInfo(revokedFile', returned'[1].subject).revoked_at = now
          /\ \A subject \in Subjects \ {returned'[1].subject} :
               ~isRevokedIn(revokedFile', subject)]_vars

\* An add has completed on a file whose text was cut short with the entry of
\* another subject in it: the store holds the added subject only.
C36_Witness ==
  /\ returned[1].kind = "registry"
  /\ returned[1].op = "add"
  /\ ~returned[1].crashed
  /\ returned[1].order = 3
  /\ revokedFile.kind = "json"
  /\ getRevocationCount(revokedFile) = 1
  /\ isRevoked(returned[1].subject)
  /\ \E subject \in Subjects \ {returned[1].subject} : ~isRevoked(subject)

\* a register request has been answered 200 in this step
RegisterAnswered == replied' # replied /\ replied'.op = "register" /\ replied'.status = 200

\* C37: the peer registry never holds two peers with the same (address, port)
\* nor two with the same id; a register of an (address, port) that is in the
\* registry answers with the id and the registeredAt the peer has, sets its
\* lastHeartbeat to the clock and leaves the other peers alone; a register of
\* an (address, port) that is not in it adds one peer with an id never used.
C37_OnePeerPerEndpoint ==
  [][/\ \A p, q \in peers' :
          (p.id = q.id \/ (p.address = q.address /\ p.port = q.port)) => p = q
     /\ RegisterAnswered =>
          \E new \in peers' :
            LET old == {q \in peers : q.address = new.address /\ q.port = new.port}
            IN  /\ new.id = replied'.peer_id
                /\ new.lastHeartbeat = now
                /\ new.registeredAt = replied'.registered_at
                /\ peers' \ {new} = peers \ old
                /\ \A q \in old : new.id = q.id /\ new.registeredAt = q.registeredAt
                /\ old = {} => new.id > uuids /\ new.registeredAt = now]_vars

\* An endpoint that was registered earlier, while another peer was registered
\* and unregistered, has registered again: it has its id and its first
\* registeredAt, and the lastHeartbeat of the second register.
C37_Witness ==
  /\ replied.op = "register"
  /\ replied.status = 200
  /\ uuids = 2
  /\ \E p \in peers :
       /\ peers = {p}
       /\ p.id = replied.peer_id
       /\ p.id = 1
       /\ p.registeredAt = replied.registered_at
       /\ p.registeredAt < p.lastHeartbeat
       /\ p.lastHeartbeat = now

\* the peer with this id and this lastHeartbeat is in the registry
PeerSince(id, t) == \E p \in peers : p.id = id /\ p.lastHeartbeat = t

\* C38: a peer leaves the registry by an unregister of its id that is
\* answered 200, or else only when the clock is more than 5 minutes past its
\* lastHeartbeat (which register and heartbeat set); a heartbeat or an
\* unregister for an id that is not in the registry is answered 404
\* PEER_NOT_FOUND and leaves the registry as it is; and a peer whose
\* lastHeartbeat is no longer refreshed leaves the registry eventually (for
\* every lastHeartbeat whose timeout ends before the clock of the model does).
C38_StalePeersAreRemoved ==
  /\ [][/\ \A p \in peers :
             (\A q \in peers' : q.id # p.id) =>
               \/ /\ replied' # replied
                  /\ replied'.op = "unregister"
                  /\ replied'.status = 200
                  /\ replied'.peer_id = p.id
               \/ now - p.lastHeartbeat > HEARTBEAT_TIMEOUT_MS
        /\ (/\ replied' # replied
            /\ replied'.op \in {"heartbeat", "unregister"}
            /\ replied'.peer_id # Undefined
            /\ peersGet(replied'.peer_id) = {}) =>
             /\ replied'.status = 404
             /\ replied'.error = "PEER_NOT_FOUND"
             /\ peers' = peers
             /\ uuids' = uuids]_vars
  /\ \A id \in PeerIds : \A t \in 1..(MaxMinutes - HEARTBEAT_TIMEOUT_MS - 1) :
       PeerSince(id, t) ~> ~PeerSince(id, t)

\* The peer registered in the first minute has gone without an unregister
\* (its id is the only one handed out and the clock is past its timeout), and
\* a heartbeat for its id has been answered PEER_NOT_FOUND.
C38_Witness ==
  /\ uuids = 1
  /\ peers = {}
  /\ now > 1 + HEARTBEAT_TIMEOUT_MS
  /\ replied.op = "heartbeat"
  /\ replied.status = 404
  /\ replied.error = "PEER_NOT_FOUND"
  /\ replied.peer_id = 1

====
